---- MODULE Spec2Model ----
(***************************************************************************)
(* farcasterd runtime (src/src/farcasterd/runtime.rs): the orchestrator's  *)
(* bus handler, service registry, request router, progress pub/sub, stats  *)
(* and cleanup, as one state machine.  One step = one call of              *)
(* Runtime::handle, run to completion (the daemon is single threaded).     *)
(*                                                                         *)
(* Option<T> is modelled as a set of at most one element: {} is None and   *)
(* {x} is Some(x).                                                         *)
(***************************************************************************)
EXTENDS Integers, Sequences, FiniteSets, TLC

(* ---------- bounds of the model ---------- *)
\* number of syncer tasks issued (caps syncer_task_counter)
MaxTasks == 1
\* number of increments of one Stats counter
MaxCount == 1
\* length of one progress queue
MaxQueue == 2
\* the longest sequence of syncer_up calls and Hello events that is tried
\* from a state
MaxCalls == 3

(* ---------- value domains ---------- *)
Addrs == {"a", "b"}
SwapIds == {"s1", "s2"}
Chains == {"Bitcoin", "Monero"}
Clients == {"c1", "c2"}
KeyVals == {1, 2}
Outcomes == {"Buy", "Refund", "Punish", "Abort"}

\* PublicOffer: an offer id plus the maker's peer address
Offers == {[id |-> 1, peer |-> "a"], [id |-> 2, peer |-> "a"], [id |-> 1, peer |-> "b"]}

(* ---------- ServiceId ---------- *)
Farcasterd == <<"Farcasterd">>
Wallet == <<"Wallet">>
Database == <<"Database">>
Grpcd == <<"Grpcd">>
Peer(a) == <<"Peer", a>>
Swap(s) == <<"Swap", s>>
Syncer(c) == <<"Syncer", c>>
Client(c) == <<"Client", c>>

Peers == {Peer(a) : a \in Addrs}
Swaps == {Swap(s) : s \in SwapIds}
Syncers == {Syncer(c) : c \in Chains}
ServiceId == {Farcasterd, Wallet, Database, Grpcd} \cup Peers \cup Swaps \cup Syncers
               \cup {Client(c) : c \in Clients}

IsPeer(s) == s[1] = "Peer"
IsSwap(s) == s[1] = "Swap"
IsSyncer(s) == s[1] = "Syncer"

(* ---------- ServiceBus ---------- *)
ServiceBus == {"Msg", "Ctl", "Bridge"}

(* ---------- Stats ---------- *)
\* A u64 counter is held as its two's-complement representative: n >= 0 is
\* the value n, and n < 0 is the value 2^64 + n that a wrapping subtraction
\* below zero leaves in the field.  On representatives, wrapping +1 and -1
\* are plain +1 and -1 (the counts of the model stay far from 2^63).
\* That is what "-= 1" does in a build without overflow checks (the release
\* profile); in a build with overflow checks (the debug profile) "-= 1" on a
\* counter that holds 0 panics instead.

StatsDefault ==
  [success |-> 0, refund |-> 0, punish |-> 0, abort |-> 0, initialized |-> 0,
   awaiting_funding_btc |-> 0, awaiting_funding_xmr |-> 0,
   funded_xmr |-> 0, funded_btc |-> 0,
   funding_canceled_xmr |-> 0, funding_canceled_btc |-> 0]

\* variant of incr_outcome that counts an aborted swap as a refund
incr_outcome_abort_as_refund(st, outcome) ==
  CASE outcome = "Buy" -> [st EXCEPT !.success = @ + 1]
    [] outcome = "Refund" -> [st EXCEPT !.refund = @ + 1]
    [] outcome = "Punish" -> [st EXCEPT !.punish = @ + 1]
    [] outcome = "Abort" -> [st EXCEPT !.refund = @ + 1]

incr_outcome(st, outcome) ==
  CASE outcome = "Buy" -> [st EXCEPT !.success = @ + 1]
    [] outcome = "Refund" -> [st EXCEPT !.refund = @ + 1]
    [] outcome = "Punish" -> [st EXCEPT !.punish = @ + 1]
    [] outcome = "Abort" -> [st EXCEPT !.abort = @ + 1]

incr_initiated(st) == [st EXCEPT !.initialized = @ + 1]

incr_awaiting_funding(st, blockchain) ==
  IF blockchain = "Monero"
  THEN [st EXCEPT !.awaiting_funding_xmr = @ + 1]
  ELSE [st EXCEPT !.awaiting_funding_btc = @ + 1]

incr_funded(st, blockchain) ==
  IF blockchain = "Monero"
  THEN [st EXCEPT !.funded_xmr = @ + 1,
                  !.awaiting_funding_xmr = @ - 1]
  ELSE [st EXCEPT !.funded_btc = @ + 1,
                  !.awaiting_funding_btc = @ - 1]

incr_funding_monero_canceled(st) ==
  [st EXCEPT !.awaiting_funding_xmr = @ - 1,
             !.funding_canceled_xmr = @ + 1]

incr_funding_bitcoin_canceled(st) ==
  [st EXCEPT !.awaiting_funding_btc = @ - 1,
             !.funding_canceled_btc = @ + 1]

\* the awaiting-funding counter of a blockchain
awaiting_funding(st, blockchain) ==
  IF blockchain = "Monero" THEN st.awaiting_funding_xmr ELSE st.awaiting_funding_btc

\* "attempt to subtract with overflow": the decrement of the blockchain's
\* awaiting-funding counter panics
subtract_overflows(rt, blockchain) ==
  rt.overflow_checks /\ awaiting_funding(rt.stats, blockchain) = 0

(* ---------- Request ---------- *)
\* Requests are records with a "type" field; the other fields depend on it.
Hello == [type |-> "Hello"]
Terminate == [type |-> "Terminate"]
GetInfo == [type |-> "GetInfo"]
PeerdTerminated == [type |-> "PeerdTerminated"]
PeerdUnreachable == [type |-> "PeerdUnreachable"]
Keys(sk, pk) == [type |-> "Keys", sk |-> sk, pk |-> pk]
GetKeys == [type |-> "GetKeys"]
MakeOffer(o) == [type |-> "MakeOffer", public_offer |-> o]
TakeOffer(o) == [type |-> "TakeOffer", public_offer |-> o]
RevokeOffer(o) == [type |-> "RevokeOffer", public_offer |-> o]
RestoreCheckpoint(s, o) == [type |-> "RestoreCheckpoint", swap_id |-> s, public_offer |-> o]
TakerCommit(o, s) == [type |-> "TakerCommit", public_offer |-> o, swap_id |-> s]
LaunchSwap(o, s) == [type |-> "LaunchSwap", public_offer |-> o, swap_id |-> s]
FundingInfo(c) == [type |-> "FundingInfo", blockchain |-> c]
FundingCompleted(c) == [type |-> "FundingCompleted", blockchain |-> c]
FundingCanceled(c) == [type |-> "FundingCanceled", blockchain |-> c]
SwapOutcome(o) == [type |-> "SwapOutcome", outcome |-> o]
SweepAddress(c) == [type |-> "SweepAddress", blockchain |-> c]
SweepSuccess(id) == [type |-> "SyncerEvent", id |-> id]
FailureReq(info) == [type |-> "Failure", info |-> info]
StringReq(info) == [type |-> "String", info |-> info]
NodeInfo(listens, peers, swaps, offers) ==
  [type |-> "NodeInfo", listens |-> listens, peers |-> peers, swaps |-> swaps, offers |-> offers]
RemoveCheckpoint(s) == [type |-> "RemoveCheckpoint", swap_id |-> s]
SweepTask(id) == [type |-> "SyncerTask", id |-> id]
\* request::Progress::Message(m) / StateTransition(t), Success(s)
Progress(kind, v) == [type |-> "Progress", kind |-> kind, val |-> v]
Success(v) == [type |-> "Success", val |-> v]
ReadProgress(s) == [type |-> "ReadProgress", swap_id |-> s]
SubscribeProgress(s) == [type |-> "SubscribeProgress", swap_id |-> s]
UnsubscribeProgress(s) == [type |-> "UnsubscribeProgress", swap_id |-> s]
SwapProgress(events) == [type |-> "SwapProgress", progress |-> events]

(* ---------- helpers ---------- *)
Range(f) == {f[i] : i \in DOMAIN f}

\* the elements of a set in some order (the iteration order of a HashSet)
RECURSIVE SetToSeq(_)
SetToSeq(S) ==
  IF S = {} THEN <<>>
  ELSE LET x == CHOOSE y \in S : TRUE IN <<x>> \o SetToSeq(S \ {x})

RemoveAt(q, pos) == SubSeq(q, 1, pos - 1) \o SubSeq(q, pos + 1, Len(q))

\* Iterator::position: the first index whose element satisfies P, as an Option
Position(q, P(_)) ==
  LET hits == {i \in 1..Len(q) : P(q[i])}
  IN IF hits = {} THEN {} ELSE {CHOOSE i \in hits : \A j \in hits : i <= j}

(* ---------- TradeStateMachine (projections) ---------- *)
\* A machine is a record [state, offer, swap_id, peer, syncers, funding];
\* offer, swap_id, peer and funding are Options.
Tsm(state, offer, swap_id, peer, syncers, funding) ==
  [state |-> state, offer |-> offer, swap_id |-> swap_id, peer |-> peer,
   syncers |-> syncers, funding |-> funding]

StartMaker == Tsm("StartMaker", {}, {}, {}, {}, {})
StartTaker == Tsm("StartTaker", {}, {}, {}, {}, {})
StartRestore == Tsm("StartRestore", {}, {}, {}, {}, {})
MakerAwaitingTakerCommit(o) == Tsm("MakerAwaitingTakerCommit", {o}, {}, {}, {}, {})
TakerConnect(o, p) == Tsm("TakerConnect", {o}, {}, {p}, {}, {})
RestoringSwap(s, o) == Tsm("RestoringSwap", {o}, {s}, {}, Syncers, {})
SwapRunning(s, o, p, f) == Tsm("SwapRunning", {o}, {s}, p, Syncers, f)

\* open_offer(): only while advertising
open_offer(tsm) == IF tsm.state = "MakerAwaitingTakerCommit" THEN tsm.offer ELSE {}
\* consumed_offer(): after commit
consumed_offer(tsm) ==
  IF tsm.state \in {"TakerConnect", "RestoringSwap", "SwapRunning"} THEN tsm.offer ELSE {}
\* swap_id(): once a swap instance exists
swap_id(tsm) == IF tsm.state \in {"RestoringSwap", "SwapRunning"} THEN tsm.swap_id ELSE {}
syncers(tsm) == tsm.syncers
get_connection(tsm) == tsm.peer

(* ---------- TaskId ---------- *)
\* syncer_task_counter is a u32, held as its two's-complement representative
\* on 32 bits: n >= 0 is the value n and n < 0 is the value 2^32 + n, so that
\* U32Max stands for 2^32 - 1.
U32Max == -1

\* "+= 1" on a u32 in a build without overflow checks
wrapping_incr(n) == IF n = 2147483647 THEN -2147483647 - 1 ELSE n + 1

\* a < b as u32 values
u32_less(a, b) == IF (a < 0) = (b < 0) THEN a < b ELSE b < 0

\* The values of the counter a scenario may start from: a fresh process, and
\* a process that has issued 2^32 - 1 tasks and completed them all.
TaskStarts == {0, U32Max}

(* ---------- SyncerStateMachine (projections) ---------- *)
SsmStart == [state |-> "Start", task_id |-> {}, syncer |-> {}, client |-> {}]
AwaitingSweep(id, syncer, client) ==
  [state |-> "AwaitingSweep", task_id |-> {id}, syncer |-> {syncer}, client |-> {client}]
task_id(ssm) == ssm.task_id
ssm_syncer(ssm) == ssm.syncer

(* ---------- Runtime ---------- *)
VARIABLES
  node_secret_key,          \* Option<SecretKey>
  node_public_key,          \* Option<PublicKey>
  listens,                  \* set of listening addresses
  spawning_services,        \* services launched that have not said Hello yet
  registered_services,      \* services that have said Hello
  public_offers,            \* all known public offers
  progress,                 \* Swap ServiceId -> queue of progress requests
  progress_subscriptions,   \* Swap ServiceId -> set of subscribed clients
  stats,                    \* Stats
  syncer_task_counter,      \* counter of issued syncer tasks
  trade_state_machines,     \* Vec<TradeStateMachine>
  syncer_state_machines,    \* TaskId -> SyncerStateMachine
  sent,                     \* the bus sends of the last handler call, in order
  result,                   \* what the last handler call returned
  last,                     \* the last call: [bus, source, request]
  executed,                 \* history: the machine transitions of the last call
  keys_seen,                \* history: the pairs of the last two Keys requests handled
  lifecycle,                \* history: last lifecycle event seen of each service
  streams,                  \* history: the progress events sent to each subscriber
  overflow_checks           \* build profile: TRUE when integer overflow panics

rtvars == <<node_secret_key, node_public_key, listens, spawning_services,
            registered_services, public_offers, progress, progress_subscriptions,
            stats, syncer_task_counter, trade_state_machines, syncer_state_machines>>
vars == <<node_secret_key, node_public_key, listens, spawning_services,
          registered_services, public_offers, progress, progress_subscriptions,
          stats, syncer_task_counter, trade_state_machines, syncer_state_machines,
          sent, result, last, executed, keys_seen, lifecycle, streams, overflow_checks>>

\* The runtime as one value, threaded through the calls a handler makes.
RT ==
  [node_secret_key |-> node_secret_key, node_public_key |-> node_public_key,
   listens |-> listens, spawning_services |-> spawning_services,
   registered_services |-> registered_services, public_offers |-> public_offers,
   progress |-> progress, progress_subscriptions |-> progress_subscriptions,
   stats |-> stats, syncer_task_counter |-> syncer_task_counter,
   trade_state_machines |-> trade_state_machines,
   syncer_state_machines |-> syncer_state_machines,
   sent |-> <<>>, executed |-> <<>>, lifecycle |-> lifecycle,
   overflow_checks |-> overflow_checks]

\* endpoints.send_to: fails when the destination is unreachable
SendOk(env, to) == to \notin env.down
Push(rt, to, req) == [rt EXCEPT !.sent = Append(@, [to |-> to, request |-> req])]

\* variant of services_ready that tests Database before Wallet
services_ready_database_first(rt) ==
  IF Database \notin rt.registered_services
  THEN "Farcaster not ready yet, databased still starting"
  ELSE IF Wallet \notin rt.registered_services
       THEN "Farcaster not ready yet, walletd still starting"
       ELSE "Ok"

services_ready(rt) ==
  IF Wallet \notin rt.registered_services
  THEN "Farcaster not ready yet, walletd still starting"
  ELSE IF Database \notin rt.registered_services
       THEN "Farcaster not ready yet, databased still starting"
       ELSE "Ok"

\* Ok((sk, pk)) is <<"Ok", sk, pk>>
peer_keys_ready(rt) ==
  IF rt.node_secret_key # {} /\ rt.node_public_key # {}
  THEN <<"Ok", CHOOSE sk \in rt.node_secret_key : TRUE,
               CHOOSE pk \in rt.node_public_key : TRUE>>
  ELSE <<"Peer keys not ready yet">>

consumed_offers_contains(rt, offer) ==
  \E i \in 1..Len(rt.trade_state_machines) :
    \E o \in consumed_offer(rt.trade_state_machines[i]) : o.id = offer.id

running_swaps_contain(rt, sid) ==
  \E i \in 1..Len(rt.trade_state_machines) : sid \in swap_id(rt.trade_state_machines[i])

syncer_has_client(rt, syncerd) ==
  \/ \E i \in 1..Len(rt.trade_state_machines) : syncerd \in syncers(rt.trade_state_machines[i])
  \/ \E k \in DOMAIN rt.syncer_state_machines : syncerd \in ssm_syncer(rt.syncer_state_machines[k])

connection_has_swap_client(rt, peerd) ==
  \E i \in 1..Len(rt.trade_state_machines) : peerd \in get_connection(rt.trade_state_machines[i])

get_open_connections(rt) == {s[2] : s \in {x \in rt.registered_services : IsPeer(x)}}

(* ---------- launching children ---------- *)
\* env.down is the set of endpoints a send fails to; env.child is what happens to a child process launched while the request
\* is handled: "ok", "spawn_failed" (launch returns Err) or "exited" (the
\* child has exited when it is probed after 500 ms).
ChildOutcomes == {"ok", "spawn_failed", "exited"}

\* The services whose lifecycle (launch, Hello, termination) the registry follows.
Tracked == {Wallet, Database} \cup Peers \cup Syncers

Launched(rt, svc) == [rt EXCEPT !.lifecycle[svc] = "launched"]

\* variant of connect_peer that records the peer as spawning before it probes the child
connect_peer_insert_first(rt, addr, env) ==
  IF Peer(addr) \in rt.registered_services
  THEN [err |-> "Already connected to peer", rt |-> rt]
  ELSE IF env.child = "spawn_failed"
  THEN [err |-> "Io", rt |-> rt]
  ELSE IF env.child = "exited"
  THEN [err |-> "InvalidEndpoint",
        rt |-> [rt EXCEPT !.spawning_services = @ \cup {Peer(addr)}]]
  ELSE [err |-> "Ok",
        rt |-> Launched([rt EXCEPT !.spawning_services = @ \cup {Peer(addr)}], Peer(addr))]

connect_peer(rt, addr, env) ==
  IF Peer(addr) \in rt.registered_services
  THEN [err |-> "Already connected to peer", rt |-> rt]
  ELSE IF env.child = "spawn_failed"
  THEN [err |-> "Io", rt |-> rt]
  ELSE IF env.child = "exited"
  THEN [err |-> "InvalidEndpoint", rt |-> rt]
  ELSE [err |-> "Ok",
        rt |-> Launched([rt EXCEPT !.spawning_services = @ \cup {Peer(addr)}], Peer(addr))]

listen(rt, addr, env) ==
  IF env.child = "spawn_failed" THEN [err |-> "Io", rt |-> rt]
  ELSE IF env.child = "exited" THEN [err |-> "InvalidEndpoint", rt |-> rt]
  ELSE [err |-> "Ok", rt |-> rt]

\* variant of syncer_up that looks for the syncer in registered_services only
syncer_up_registered_only(rt, blockchain, env) ==
  LET syncer_service == Syncer(blockchain)
      absent == syncer_service \notin rt.registered_services
      rt1 == IF absent
             THEN Launched([rt EXCEPT !.spawning_services = @ \cup {syncer_service}],
                           syncer_service)
             ELSE rt
  IN IF absent /\ env.child = "spawn_failed"
     THEN [err |-> "Io", rt |-> rt, res |-> {}, launched |-> FALSE]
     ELSE [err |-> "Ok", rt |-> rt1,
           res |-> IF syncer_service \in rt1.registered_services
                   THEN {syncer_service} ELSE {},
           launched |-> absent]

\* res is the Option<ServiceId> returned on Ok; launched tells whether
\* launch("syncerd", args) was called and returned a child
syncer_up(rt, blockchain, env) ==
  LET syncer_service == Syncer(blockchain)
      absent == /\ syncer_service \notin rt.registered_services
                /\ syncer_service \notin rt.spawning_services
      rt1 == IF absent
             THEN Launched([rt EXCEPT !.spawning_services = @ \cup {syncer_service}],
                           syncer_service)
             ELSE rt
  IN IF absent /\ env.child = "spawn_failed"
     THEN [err |-> "Io", rt |-> rt, res |-> {}, launched |-> FALSE]
     ELSE [err |-> "Ok", rt |-> rt1,
           res |-> IF syncer_service \in rt1.registered_services
                   THEN {syncer_service} ELSE {},
           launched |-> absent]

launch_swapd(env) == IF env.child = "spawn_failed" THEN "Io" ELSE "Ok"

(* ---------- cleanup ---------- *)
\* The registered Peer and Syncer services that cleanup tries to terminate.
Unreferenced(rt) ==
  {service \in rt.registered_services :
     \/ IsPeer(service) /\ ~connection_has_swap_client(rt, service)
     \/ IsSyncer(service) /\ ~syncer_has_client(rt, service)}

\* variant of the cleanup that goes on to the registry when RemoveCheckpoint was not sent
clean_up_after_swap_ignores_database(rt, sid, env) ==
  IF ~SendOk(env, Swap(sid)) THEN [err |-> "Esb", rt |-> rt]
  ELSE
  LET rt1 == Push(rt, Swap(sid), Terminate)
      rt2 == IF SendOk(env, Database) THEN Push(rt1, Database, RemoveCheckpoint(sid)) ELSE rt1
      delivered == {service \in Unreferenced(rt2) : SendOk(env, service)}
      order == SetToSeq(delivered)
  IN [err |-> IF SendOk(env, Database) THEN "Ok" ELSE "Esb",
      rt |-> [rt2 EXCEPT
                !.registered_services = @ \ delivered,
                !.sent = @ \o [i \in 1..Len(order) |-> [to |-> order[i], request |-> Terminate]],
                !.lifecycle = [s \in DOMAIN @ |->
                                 IF s \in delivered THEN "terminated" ELSE @[s]]]]

clean_up_after_swap(rt, sid, env) ==
  IF ~SendOk(env, Swap(sid)) THEN [err |-> "Esb", rt |-> rt]
  ELSE
  LET rt1 == Push(rt, Swap(sid), Terminate) IN
  IF ~SendOk(env, Database) THEN [err |-> "Esb", rt |-> rt1]
  ELSE
  LET rt2 == Push(rt1, Database, RemoveCheckpoint(sid))
      \* filter keeps a Peer or Syncer without client iff send_to(..).is_err()
      delivered == {service \in Unreferenced(rt2) : SendOk(env, service)}
      order == SetToSeq(delivered)
  IN [err |-> "Ok",
      rt |-> [rt2 EXCEPT
                !.registered_services = @ \ delivered,
                !.sent = @ \o [i \in 1..Len(order) |-> [to |-> order[i], request |-> Terminate]],
                !.lifecycle = [s \in DOMAIN @ |->
                                 IF s \in delivered THEN "terminated" ELSE @[s]]]]

(* ---------- TradeStateMachine::next ---------- *)
\* A transition returns [out, tsm, rt]: out = "some" with the next machine
\* in tsm, out = "none" when the machine ended, out = "err" when a bus send
\* or a call made by the transition returned an error.
Some(m, rt) == [out |-> "some", tsm |-> {m}, rt |-> rt]
None(rt) == [out |-> "none", tsm |-> {}, rt |-> rt]
\* the thread panicked inside the transition
Panicked(rt) == [out |-> "panic", tsm |-> {}, rt |-> rt]
Err(rt) == [out |-> "err", tsm |-> {}, rt |-> rt]

\* reply to the requester and end the machine
ReplyAndEnd(rt, env, source, req) ==
  IF SendOk(env, source) THEN None(Push(rt, source, req)) ELSE Err(rt)

NotReady(rt) ==
  IF services_ready(rt) # "Ok" THEN {services_ready(rt)}
  ELSE IF peer_keys_ready(rt)[1] # "Ok" THEN {peer_keys_ready(rt)[1]}
  ELSE {}

attempt_make_offer(rt, env, source, o) ==
  IF NotReady(rt) # {}
  THEN ReplyAndEnd(rt, env, source, FailureReq(CHOOSE i \in NotReady(rt) : TRUE))
  ELSE
  LET s1 == syncer_up(rt, "Bitcoin", env)
      s2 == syncer_up(s1.rt, "Monero", env)
      li == IF o.peer \in s2.rt.listens THEN [err |-> "Ok", rt |-> s2.rt]
            ELSE listen(s2.rt, o.peer, env)
      rt3 == [li.rt EXCEPT !.listens = @ \cup {o.peer}]
  IN IF s1.err # "Ok" THEN Err(s1.rt)
     ELSE IF s2.err # "Ok" THEN Err(s2.rt)
     ELSE IF li.err # "Ok" THEN ReplyAndEnd(li.rt, env, source, FailureReq(li.err))
     ELSE IF o \in rt3.public_offers
     THEN ReplyAndEnd(rt3, env, source, FailureReq("This Public offer was previously registered"))
     ELSE IF ~SendOk(env, source) THEN Err([rt3 EXCEPT !.public_offers = @ \cup {o}])
     ELSE Some(MakerAwaitingTakerCommit(o),
               Push([rt3 EXCEPT !.public_offers = @ \cup {o}], source, StringReq("offer")))

attempt_take_offer(rt, env, source, o) ==
  IF NotReady(rt) # {}
  THEN ReplyAndEnd(rt, env, source, FailureReq(CHOOSE i \in NotReady(rt) : TRUE))
  ELSE IF o \in rt.public_offers \/ consumed_offers_contains(rt, o)
  THEN ReplyAndEnd(rt, env, source, FailureReq("Offer already exists or was already taken"))
  ELSE
  LET s1 == syncer_up(rt, "Bitcoin", env)
      s2 == syncer_up(s1.rt, "Monero", env)
      c == connect_peer(s2.rt, o.peer, env)
  IN IF s1.err # "Ok" THEN Err(s1.rt)
     ELSE IF s2.err # "Ok" THEN Err(s2.rt)
     ELSE IF c.err # "Ok" THEN ReplyAndEnd(c.rt, env, source, FailureReq(c.err))
     ELSE IF ~SendOk(env, source) THEN Err([c.rt EXCEPT !.public_offers = @ \cup {o}])
     ELSE Some(TakerConnect(o, Peer(o.peer)),
               Push([c.rt EXCEPT !.public_offers = @ \cup {o}], source, StringReq("taking")))

attempt_restore(rt, env, source, sid, o) ==
  IF services_ready(rt) # "Ok"
  THEN ReplyAndEnd(rt, env, source, FailureReq(services_ready(rt)))
  ELSE IF running_swaps_contain(rt, sid)
  THEN ReplyAndEnd(rt, env, source, FailureReq("Swap already running"))
  ELSE
  LET s1 == syncer_up(rt, "Bitcoin", env)
      s2 == syncer_up(s1.rt, "Monero", env)
  IN IF s1.err # "Ok" THEN Err(s1.rt)
     ELSE IF s2.err # "Ok" THEN Err(s2.rt)
     ELSE IF launch_swapd(env) # "Ok" THEN Err(s2.rt)
     ELSE Some(RestoringSwap(sid, o), s2.rt)

launch_swap(rt, env, sid, o, peer) ==
  IF launch_swapd(env) # "Ok" THEN Err(rt)
  ELSE Some(SwapRunning(sid, o, peer, {}), [rt EXCEPT !.stats = incr_initiated(@)])

swap_running_next(tsm, rt, env, req) ==
  LET sid == CHOOSE x \in tsm.swap_id : TRUE IN
  CASE req.type = "FundingInfo" ->
         Some([tsm EXCEPT !.funding = {req.blockchain}],
              [rt EXCEPT !.stats = incr_awaiting_funding(@, req.blockchain)])
    [] req.type = "FundingCompleted" ->
         IF subtract_overflows(rt, req.blockchain) THEN Panicked(rt)
         ELSE Some([tsm EXCEPT !.funding = {}],
                   [rt EXCEPT !.stats = incr_funded(@, req.blockchain)])
    [] req.type = "FundingCanceled" ->
         IF subtract_overflows(rt, req.blockchain) THEN Panicked(rt)
         ELSE Some([tsm EXCEPT !.funding = {}],
                   [rt EXCEPT !.stats = IF req.blockchain = "Monero"
                                        THEN incr_funding_monero_canceled(@)
                                        ELSE incr_funding_bitcoin_canceled(@)])
    [] req.type = "SwapOutcome" ->
         LET c == clean_up_after_swap([rt EXCEPT !.stats = incr_outcome(@, req.outcome)],
                                      sid, env)
         IN IF c.err # "Ok" THEN Err(c.rt) ELSE None(c.rt)
    [] OTHER -> Some(tsm, rt)

tsm_next(tsm, rt, env, source, req) ==
  CASE tsm.state = "StartMaker" /\ req.type = "MakeOffer" ->
         attempt_make_offer(rt, env, source, req.public_offer)
    [] tsm.state = "StartTaker" /\ req.type = "TakeOffer" ->
         attempt_take_offer(rt, env, source, req.public_offer)
    [] tsm.state = "StartRestore" /\ req.type = "RestoreCheckpoint" ->
         attempt_restore(rt, env, source, req.swap_id, req.public_offer)
    [] tsm.state = "MakerAwaitingTakerCommit" /\ req.type = "TakerCommit" ->
         launch_swap(rt, env, req.swap_id, CHOOSE o \in tsm.offer : TRUE,
                     IF IsPeer(source) THEN {source} ELSE {})
    [] tsm.state = "MakerAwaitingTakerCommit" /\ req.type = "RevokeOffer" ->
         ReplyAndEnd(rt, env, source, StringReq("Revoked offer"))
    [] tsm.state = "TakerConnect" /\ req.type = "Hello" /\ source \in tsm.peer ->
         IF SendOk(env, source)
         THEN Some(tsm, Push(rt, source, TakerCommit(CHOOSE o \in tsm.offer : TRUE, "s1")))
         ELSE Err(rt)
    [] tsm.state = "TakerConnect" /\ req.type = "LaunchSwap" ->
         launch_swap(rt, env, req.swap_id, CHOOSE o \in tsm.offer : TRUE, tsm.peer)
    [] tsm.state = "RestoringSwap" /\ req.type = "Hello" /\ source = Swap(CHOOSE x \in tsm.swap_id : TRUE) ->
         Some(SwapRunning(CHOOSE x \in tsm.swap_id : TRUE, CHOOSE o \in tsm.offer : TRUE, {}, {}), rt)
    [] tsm.state = "SwapRunning" -> swap_running_next(tsm, rt, env, req)
    [] OTHER -> Some(tsm, rt)

(* ---------- SyncerStateMachine::next ---------- *)
ssm_next(ssm, rt, env, source, req) ==
  CASE ssm.state = "Start" /\ req.type = "SweepAddress" ->
         LET id == wrapping_incr(rt.syncer_task_counter)
             up == syncer_up([rt EXCEPT !.syncer_task_counter = id], req.blockchain, env)
         IN IF rt.overflow_checks /\ rt.syncer_task_counter = U32Max THEN Panicked(rt)
            ELSE IF up.err # "Ok" THEN Err(up.rt)
            ELSE IF ~SendOk(env, Syncer(req.blockchain)) THEN Err(up.rt)
            ELSE Some(AwaitingSweep(id, Syncer(req.blockchain), source),
                      Push(up.rt, Syncer(req.blockchain), SweepTask(id)))
    [] ssm.state = "AwaitingSweep" /\ req.type = "SyncerEvent" ->
         LET client == CHOOSE c \in ssm.client : TRUE
         IN IF SendOk(env, client) THEN None(Push(rt, client, StringReq("swept")))
            ELSE Err(rt)
    [] OTHER -> Some(ssm, rt)

(* ---------- running one machine ---------- *)
Logged(family, before, r) ==
  [r EXCEPT !.rt.executed =
     Append(@, [family |-> family, machine |-> before, out |-> r.out, next |-> r.tsm])]

execute_trade_state_machine(rt, env, source, req, tsm) ==
  Logged("trade", tsm, tsm_next(tsm, rt, env, source, req))

execute_syncer_state_machine(rt, env, source, req, ssm) ==
  Logged("syncer", ssm, ssm_next(ssm, rt, env, source, req))

(* ---------- router ---------- *)
\* Both matchers return [m, rt]: the selected machine as an Option and the
\* runtime after the selected machine has been taken out of its collection.
TakeTrade(rt, P(_)) ==
  LET pos == Position(rt.trade_state_machines, P)
  IN IF pos = {} THEN [m |-> {}, rt |-> rt]
     ELSE LET i == CHOOSE x \in pos : TRUE
          IN [m |-> {rt.trade_state_machines[i]},
              rt |-> [rt EXCEPT !.trade_state_machines = RemoveAt(@, i)]]

\* variant of the trade matcher that takes the first machine with any swap id
match_request_to_trade_state_machine_any_swap(rt, req, source) ==
  CASE req.type = "RestoreCheckpoint" -> [m |-> {StartRestore}, rt |-> rt]
    [] req.type = "MakeOffer" -> [m |-> {StartMaker}, rt |-> rt]
    [] req.type = "TakeOffer" -> [m |-> {StartTaker}, rt |-> rt]
    [] req.type \in {"TakerCommit", "RevokeOffer"} ->
         LET P(tsm) == req.public_offer \in open_offer(tsm) IN TakeTrade(rt, P)
    [] req.type = "LaunchSwap" ->
         LET P(tsm) == req.public_offer \in consumed_offer(tsm) IN TakeTrade(rt, P)
    [] /\ req.type \in {"PeerdUnreachable", "FundingInfo", "FundingCanceled",
                        "FundingCompleted", "SwapOutcome"}
       /\ IsSwap(source) ->
         LET P(tsm) == swap_id(tsm) # {} IN TakeTrade(rt, P)
    [] OTHER -> [m |-> {}, rt |-> rt]

\* variant of the trade matcher where RevokeOffer selects the first machine that has an open offer
match_request_to_trade_state_machine_revoke_any(rt, req, source) ==
  CASE req.type = "RestoreCheckpoint" -> [m |-> {StartRestore}, rt |-> rt]
    [] req.type = "MakeOffer" -> [m |-> {StartMaker}, rt |-> rt]
    [] req.type = "TakeOffer" -> [m |-> {StartTaker}, rt |-> rt]
    [] req.type = "TakerCommit" ->
         LET P(tsm) == req.public_offer \in open_offer(tsm) IN TakeTrade(rt, P)
    [] req.type = "RevokeOffer" ->
         LET P(tsm) == open_offer(tsm) # {} IN TakeTrade(rt, P)
    [] req.type = "LaunchSwap" ->
         LET P(tsm) == req.public_offer \in consumed_offer(tsm) IN TakeTrade(rt, P)
    [] /\ req.type \in {"PeerdUnreachable", "FundingInfo", "FundingCanceled",
                        "FundingCompleted", "SwapOutcome"}
       /\ IsSwap(source) ->
         LET P(tsm) == source[2] \in swap_id(tsm) IN TakeTrade(rt, P)
    [] OTHER -> [m |-> {}, rt |-> rt]

match_request_to_trade_state_machine(rt, req, source) ==
  CASE req.type = "RestoreCheckpoint" -> [m |-> {StartRestore}, rt |-> rt]
    [] req.type = "MakeOffer" -> [m |-> {StartMaker}, rt |-> rt]
    [] req.type = "TakeOffer" -> [m |-> {StartTaker}, rt |-> rt]
    [] req.type \in {"TakerCommit", "RevokeOffer"} ->
         LET P(tsm) == req.public_offer \in open_offer(tsm) IN TakeTrade(rt, P)
    [] req.type = "LaunchSwap" ->
         LET P(tsm) == req.public_offer \in consumed_offer(tsm) IN TakeTrade(rt, P)
    [] /\ req.type \in {"PeerdUnreachable", "FundingInfo", "FundingCanceled",
                        "FundingCompleted", "SwapOutcome"}
       /\ IsSwap(source) ->
         LET P(tsm) == source[2] \in swap_id(tsm) IN TakeTrade(rt, P)
    [] OTHER -> [m |-> {}, rt |-> rt]

\* variant of the syncer matcher that looks the machine up and leaves it in the map
match_request_to_syncer_state_machine_get(rt, req, source) ==
  CASE req.type = "SweepAddress" -> [m |-> {SsmStart}, rt |-> rt]
    [] req.type = "SyncerEvent" ->
         IF req.id \in DOMAIN rt.syncer_state_machines
         THEN [m |-> {rt.syncer_state_machines[req.id]}, rt |-> rt]
         ELSE [m |-> {}, rt |-> rt]
    [] OTHER -> [m |-> {}, rt |-> rt]

match_request_to_syncer_state_machine(rt, req, source) ==
  CASE req.type = "SweepAddress" -> [m |-> {SsmStart}, rt |-> rt]
    [] req.type = "SyncerEvent" ->
         IF req.id \in DOMAIN rt.syncer_state_machines
         THEN [m |-> {rt.syncer_state_machines[req.id]},
               rt |-> [rt EXCEPT !.syncer_state_machines =
                         [k \in DOMAIN @ \ {req.id} |-> @[k]]]]
         ELSE [m |-> {}, rt |-> rt]
    [] OTHER -> [m |-> {}, rt |-> rt]

MapInsert(f, k, v) == [x \in DOMAIN f \cup {k} |-> IF x = k THEN v ELSE f[x]]

\* if let Some(new_tsm) = self.execute_trade_state_machine(..)? { push(new_tsm) }
\* and the same for a syncer machine, inserted under key; both return [err, rt].
reinsert_trade(r) ==
  IF r.out = "panic" THEN [err |-> "Panic", rt |-> r.rt]
  ELSE IF r.out = "err" THEN [err |-> "Err", rt |-> r.rt]
  ELSE IF r.out = "some"
  THEN [err |-> "Ok",
        rt |-> [r.rt EXCEPT !.trade_state_machines = Append(@, CHOOSE m \in r.tsm : TRUE)]]
  ELSE [err |-> "Ok", rt |-> r.rt]

\* variant of the insertion that keys the machine by the value of the task counter
reinsert_syncer_by_counter(r, key) ==
  IF r.out = "panic" THEN [err |-> "Panic", rt |-> r.rt]
  ELSE IF r.out = "err" THEN [err |-> "Err", rt |-> r.rt]
  ELSE IF r.out = "some" /\ key # {}
  THEN [err |-> "Ok",
        rt |-> [r.rt EXCEPT !.syncer_state_machines =
                  MapInsert(@, r.rt.syncer_task_counter, CHOOSE m \in r.tsm : TRUE)]]
  ELSE [err |-> "Ok", rt |-> r.rt]

reinsert_syncer(r, key) ==
  IF r.out = "panic" THEN [err |-> "Panic", rt |-> r.rt]
  ELSE IF r.out = "err" THEN [err |-> "Err", rt |-> r.rt]
  ELSE IF r.out = "some" /\ key # {}
  THEN [err |-> "Ok",
        rt |-> [r.rt EXCEPT !.syncer_state_machines =
                  MapInsert(@, CHOOSE k \in key : TRUE, CHOOSE m \in r.tsm : TRUE)]]
  ELSE [err |-> "Ok", rt |-> r.rt]

\* the task id of the machine a transition returned, as an Option
new_task_id(r) == IF r.out = "some" THEN task_id(CHOOSE m \in r.tsm : TRUE) ELSE {}

run_matched_trade(t, env, source, req) ==
  reinsert_trade(execute_trade_state_machine(t.rt, env, source, req, CHOOSE m \in t.m : TRUE))

run_matched_syncer(y, env, source, req) ==
  LET Insert(r) == reinsert_syncer(r, new_task_id(r))
  IN Insert(execute_syncer_state_machine(y.rt, env, source, req, CHOOSE m \in y.m : TRUE))

\* variant of the router that runs the transition with the matched machine still in the Vec
process_request_keeps_machine(rt, env, source, req) ==
  LET Syncer_(y) == IF y.m # {} THEN run_matched_syncer(y, env, source, req)
                    ELSE [err |-> "Ok", rt |-> rt]
      Trade_(t) == IF t.m # {}
                   THEN run_matched_trade([t EXCEPT !.rt = rt], env, source, req)
                   ELSE Syncer_(match_request_to_syncer_state_machine(rt, req, source))
  IN Trade_(match_request_to_trade_state_machine(rt, req, source))

\* variant of the router that answers an unmatched request with a Failure
process_request_miss_fails(rt, env, source, req) ==
  LET Syncer_(y) == IF y.m # {} THEN run_matched_syncer(y, env, source, req)
                    ELSE IF SendOk(env, source)
                    THEN [err |-> "Ok", rt |-> Push(rt, source, FailureReq("Unknown request"))]
                    ELSE [err |-> "Err", rt |-> rt]
      Trade_(t) == IF t.m # {} THEN run_matched_trade(t, env, source, req)
                   ELSE Syncer_(match_request_to_syncer_state_machine(rt, req, source))
  IN Trade_(match_request_to_trade_state_machine(rt, req, source))

\* returns [err, rt]
process_request_with_state_machines(rt, env, source, req) ==
  LET Syncer_(y) == IF y.m # {} THEN run_matched_syncer(y, env, source, req)
                    ELSE [err |-> "Ok", rt |-> rt]
      Trade_(t) == IF t.m # {} THEN run_matched_trade(t, env, source, req)
                   ELSE Syncer_(match_request_to_syncer_state_machine(rt, req, source))
  IN Trade_(match_request_to_trade_state_machine(rt, req, source))

(* ---------- Hello broadcast ---------- *)
\* for tsm in moved.drain(..): run it and push the machine it returns; an
\* Err leaves the loop and the handler through the ? operator.
RECURSIVE BroadcastTrade(_, _, _, _, _, _)
BroadcastTrade(moved, i, rt, env, source, req) ==
  LET Rest(p) == IF p.err # "Ok" THEN p
                 ELSE BroadcastTrade(moved, i + 1, p.rt, env, source, req)
  IN IF i > Len(moved) THEN [err |-> "Ok", rt |-> rt]
     ELSE Rest(reinsert_trade(execute_trade_state_machine(rt, env, source, req, moved[i])))

\* moved is the drained map as a sequence of <<task_id, ssm>>; the machine a
\* transition returns is inserted under the task id it was drained with
RECURSIVE BroadcastSyncer(_, _, _, _, _, _)
BroadcastSyncer(moved, i, rt, env, source, req) ==
  LET Rest(p) == IF p.err # "Ok" THEN p
                 ELSE BroadcastSyncer(moved, i + 1, p.rt, env, source, req)
  IN IF i > Len(moved) THEN [err |-> "Ok", rt |-> rt]
     ELSE Rest(reinsert_syncer(
                 execute_syncer_state_machine(rt, env, source, req, moved[i][2]),
                 {moved[i][1]}))

EmptyMap == [k \in {} |-> {}]

\* self.syncer_state_machines.drain().collect()
drain_syncers(rt) ==
  LET keys == SetToSeq(DOMAIN rt.syncer_state_machines)
  IN [i \in 1..Len(keys) |-> <<keys[i], rt.syncer_state_machines[keys[i]]>>]

hello_broadcast(rt, env, source, req) ==
  LET Syncers_(t) ==
        IF t.err # "Ok" THEN t
        ELSE BroadcastSyncer(drain_syncers(t.rt), 1,
                             [t.rt EXCEPT !.syncer_state_machines = EmptyMap],
                             env, source, req)
  IN Syncers_(BroadcastTrade(rt.trade_state_machines, 1,
                             [rt EXCEPT !.trade_state_machines = <<>>],
                             env, source, req))

(* ---------- handle_rpc_ctl ---------- *)
\* CtlServer::send_client_ctl: a send to the client on the Ctl bus
send_client_ctl(rt, env, dest, req) ==
  IF SendOk(env, dest) THEN [err |-> "Ok", rt |-> Push(rt, dest, req)]
  ELSE [err |-> "Err", rt |-> rt]

\* variant of the registry part that registers every source but a syncer
hello_registry_registers_all(rt, source) ==
  IF IsSyncer(source)
  THEN IF source \in rt.spawning_services
       THEN [rt EXCEPT !.spawning_services = @ \ {source},
                       !.registered_services = @ \cup {source}]
       ELSE rt
  ELSE [rt EXCEPT !.registered_services = @ \cup {source}]

\* the registry part of the Hello arm (the match on &source)
hello_registry(rt, source) ==
  CASE source = Farcasterd -> rt
    [] source = Database -> [rt EXCEPT !.registered_services = @ \cup {source}]
    [] source = Wallet -> [rt EXCEPT !.registered_services = @ \cup {source}]
    [] IsPeer(source) -> [rt EXCEPT !.registered_services = @ \cup {source}]
    [] IsSwap(source) -> rt
    [] IsSyncer(source) ->
         IF source \in rt.spawning_services
         THEN [rt EXCEPT !.spawning_services = @ \ {source},
                         !.registered_services = @ \cup {source}]
         ELSE rt
    [] OTHER -> rt

ctl_hello(rt, env, source, req) ==
  LET rt0 == IF source \in Tracked THEN [rt EXCEPT !.lifecycle[source] = "hello"] ELSE rt
      rt1 == hello_registry(rt0, source)
  IN IF source = Wallet /\ ~SendOk(env, Wallet) THEN [err |-> "Err", rt |-> rt1]
     ELSE hello_broadcast(IF source = Wallet THEN Push(rt1, Wallet, GetKeys) ELSE rt1,
                          env, source, req)

\* variant of the Keys arm that keeps the first pair
ctl_keys_set_once(rt, req) ==
  [err |-> "Ok",
   rt |-> IF rt.node_secret_key = {}
          THEN [rt EXCEPT !.node_secret_key = {req.sk}, !.node_public_key = {req.pk}]
          ELSE rt]

ctl_keys(rt, req) ==
  [err |-> "Ok", rt |-> [rt EXCEPT !.node_secret_key = {req.sk},
                                   !.node_public_key = {req.pk}]]

\* variant of the GetInfo arm that also lists the peers still spawning
ctl_get_info_spawning_peers(rt, env, source) ==
  send_client_ctl(rt, env, source,
    NodeInfo(rt.listens,
             {x[2] : x \in {y \in rt.spawning_services \cup rt.registered_services : IsPeer(y)}},
             UNION {swap_id(m) : m \in Range(rt.trade_state_machines)},
             UNION {open_offer(m) : m \in Range(rt.trade_state_machines)}))

ctl_get_info(rt, env, source) ==
  send_client_ctl(rt, env, source,
    NodeInfo(rt.listens, get_open_connections(rt),
             UNION {swap_id(m) : m \in Range(rt.trade_state_machines)},
             UNION {open_offer(m) : m \in Range(rt.trade_state_machines)}))

\* variant of the PeerdTerminated arm that also drops the machines bound to the peer
ctl_peerd_terminated_drops_swaps(rt, source) ==
  IF IsPeer(source)
  THEN [err |-> "Ok",
        rt |-> [rt EXCEPT !.registered_services = @ \ {source},
                          !.lifecycle[source] = "terminated",
                          !.trade_state_machines =
                            SelectSeq(@, LAMBDA m : source \notin get_connection(m))]]
  ELSE [err |-> "Ok", rt |-> rt]

ctl_peerd_terminated(rt, source) ==
  IF IsPeer(source)
  THEN [err |-> "Ok",
        rt |-> [rt EXCEPT !.registered_services = @ \ {source},
                          !.lifecycle[source] = "terminated"]]
  ELSE [err |-> "Ok", rt |-> rt]

(* ---------- progress queues and subscriptions ---------- *)
\* The arms below return [rt, report_to]; report_to is the Vec of
\* (respond_to, response) that the loop at the end of handle_rpc_ctl sends.
\* variant of notify_subscribed_clients that keeps the subscribers it could not reach
notify_subscribed_clients_keeps_all(rt, env, source, request) ==
  IF source \in DOMAIN rt.progress_subscriptions
  THEN LET order == SetToSeq({sub \in rt.progress_subscriptions[source] : SendOk(env, sub)})
       IN [rt EXCEPT !.sent = @ \o [i \in 1..Len(order) |->
                                      [to |-> order[i], request |-> request]]]
  ELSE rt

\* subs.retain(|sub| send_to(sub, request).is_ok())
notify_subscribed_clients(rt, env, source, request) ==
  IF source \in DOMAIN rt.progress_subscriptions
  THEN LET kept == {sub \in rt.progress_subscriptions[source] : SendOk(env, sub)}
           order == SetToSeq(kept)
       IN [rt EXCEPT !.progress_subscriptions[source] = kept,
                     !.sent = @ \o [i \in 1..Len(order) |->
                                      [to |-> order[i], request |-> request]]]
  ELSE rt

\* variant of the Progress arm that notifies the subscribers twice
ctl_progress_notifies_twice(rt, env, source, req) ==
  LET queue == IF source \in DOMAIN rt.progress THEN rt.progress[source] ELSE <<>>
      Again(r) == notify_subscribed_clients(r, env, source, req)
  IN [rt |-> Again(notify_subscribed_clients(
                     [rt EXCEPT !.progress = MapInsert(@, source, Append(queue, req))],
                     env, source, req)),
      report_to |-> <<>>]

\* variant of the Progress arm whose queue holds the latest request only
ctl_progress_latest_only(rt, env, source, req) ==
  [rt |-> notify_subscribed_clients(
            [rt EXCEPT !.progress = MapInsert(@, source, <<req>>)],
            env, source, req),
   report_to |-> <<>>]

ctl_progress(rt, env, source, req) ==
  LET queue == IF source \in DOMAIN rt.progress THEN rt.progress[source] ELSE <<>>
  IN [rt |-> notify_subscribed_clients(
               [rt EXCEPT !.progress = MapInsert(@, source, Append(queue, req))],
               env, source, req),
      report_to |-> <<>>]

\* the match of the ReadProgress loop: a queued Request as a ProgressEvent
ProgressEvent(req) ==
  CASE req.type = "Progress" -> [event |-> req.kind, val |-> req.val]
    [] req.type = "Success" -> [event |-> "Success", val |-> req.val]
    [] req.type = "Failure" -> [event |-> "Failure", val |-> req.info]

\* variant of the ReadProgress arm that lists the newest event first
ctl_read_progress_newest_first(rt, source, req) ==
  LET service == Swap(req.swap_id)
      n == IF service \in DOMAIN rt.progress THEN Len(rt.progress[service]) ELSE 0
  IN [rt |-> rt,
      report_to |->
        IF service \in DOMAIN rt.progress
        THEN <<[to |-> source,
                request |-> SwapProgress([i \in 1..n |->
                                            ProgressEvent(rt.progress[service][n + 1 - i])])]>>
        ELSE <<[to |-> source,
                request |-> FailureReq(IF running_swaps_contain(rt, req.swap_id)
                                       THEN "No progress made yet on this swap"
                                       ELSE "Unknown swapd")]>>]

ctl_read_progress(rt, source, req) ==
  LET service == Swap(req.swap_id)
  IN [rt |-> rt,
      report_to |->
        IF service \in DOMAIN rt.progress
        THEN <<[to |-> source,
                request |-> SwapProgress([i \in 1..Len(rt.progress[service]) |->
                                            ProgressEvent(rt.progress[service][i])])]>>
        ELSE <<[to |-> source,
                request |-> FailureReq(IF running_swaps_contain(rt, req.swap_id)
                                       THEN "No progress made yet on this swap"
                                       ELSE "Unknown swapd")]>>]

\* variant of the SubscribeProgress arm that admits a subscriber only while the swap runs
ctl_subscribe_progress_running_only(rt, source, req) ==
  LET service == Swap(req.swap_id)
      subscribed == IF service \in DOMAIN rt.progress_subscriptions
                    THEN rt.progress_subscriptions[service] ELSE {}
  IN IF running_swaps_contain(rt, req.swap_id)
     THEN [rt |-> [rt EXCEPT !.progress_subscriptions =
                     MapInsert(@, service, subscribed \cup {source})],
           report_to |->
             IF service \in DOMAIN rt.progress
             THEN [i \in 1..Len(rt.progress[service]) |->
                     [to |-> source, request |-> rt.progress[service][i]]]
             ELSE <<>>]
     ELSE [rt |-> rt,
           report_to |-> <<[to |-> source, request |-> FailureReq("Unknown swapd")]>>]

ctl_subscribe_progress(rt, source, req) ==
  LET service == Swap(req.swap_id)
      subscribed == IF service \in DOMAIN rt.progress_subscriptions
                    THEN rt.progress_subscriptions[service] ELSE {}
  IN IF running_swaps_contain(rt, req.swap_id) \/ service \in DOMAIN rt.progress
     THEN [rt |-> [rt EXCEPT !.progress_subscriptions =
                     MapInsert(@, service, subscribed \cup {source})],
           report_to |->
             IF service \in DOMAIN rt.progress
             THEN [i \in 1..Len(rt.progress[service]) |->
                     [to |-> source, request |-> rt.progress[service][i]]]
             ELSE <<>>]
     ELSE [rt |-> rt,
           report_to |-> <<[to |-> source, request |-> FailureReq("Unknown swapd")]>>]

\* variant of the UnsubscribeProgress arm that keeps the entry of an emptied set
ctl_unsubscribe_progress_keeps_entry(rt, source, req) ==
  LET service == Swap(req.swap_id)
  IN [rt |-> IF service \in DOMAIN rt.progress_subscriptions
             THEN [rt EXCEPT !.progress_subscriptions[service] = @ \ {source}]
             ELSE rt,
      report_to |-> <<>>]

ctl_unsubscribe_progress(rt, source, req) ==
  LET service == Swap(req.swap_id)
  IN [rt |-> IF service \in DOMAIN rt.progress_subscriptions
             THEN IF rt.progress_subscriptions[service] \ {source} = {}
                  THEN [rt EXCEPT !.progress_subscriptions =
                          [k \in DOMAIN @ \ {service} |-> @[k]]]
                  ELSE [rt EXCEPT !.progress_subscriptions[service] = @ \ {source}]
             ELSE rt,
      report_to |-> <<>>]

\* for (respond_to, resp) in report_to: skip self, send_to(respond_to, resp)?
report_to_loop(rt, env, report_to) ==
  LET others == SelectSeq(report_to, LAMBDA e : e.to # Farcasterd)
      failing == {i \in 1..Len(others) : ~SendOk(env, others[i].to)}
      done == IF failing = {} THEN Len(others)
              ELSE (CHOOSE i \in failing : \A j \in failing : i <= j) - 1
  IN [err |-> IF failing = {} THEN "Ok" ELSE "Err",
      rt |-> [rt EXCEPT !.sent = @ \o SubSeq(others, 1, done)]]

\* The arms that are not listed push nothing on report_to.
handle_rpc_ctl(rt, env, source, req) ==
  LET Report(a) == report_to_loop(a.rt, env, a.report_to)
  IN CASE req.type = "Hello" -> ctl_hello(rt, env, source, req)
       [] req.type = "Keys" -> ctl_keys(rt, req)
       [] req.type = "GetInfo" -> ctl_get_info(rt, env, source)
       [] req.type \in {"Progress", "Success", "Failure"} ->
            Report(ctl_progress(rt, env, source, req))
       [] req.type = "ReadProgress" -> Report(ctl_read_progress(rt, source, req))
       [] req.type = "SubscribeProgress" -> Report(ctl_subscribe_progress(rt, source, req))
       [] req.type = "UnsubscribeProgress" -> Report(ctl_unsubscribe_progress(rt, source, req))
       [] req.type = "PeerdTerminated" -> ctl_peerd_terminated(rt, source)
       [] OTHER -> process_request_with_state_machines(rt, env, source, req)

(* ---------- handle_rpc_msg ---------- *)
handle_rpc_msg(rt, env, source, req) ==
  IF req.type = "Hello" THEN [err |-> "Ok", rt |-> rt]
  ELSE process_request_with_state_machines(rt, env, source, req)

(* ---------- Handler::handle ---------- *)
\* variant of handle that treats every bus other than Msg as Ctl
handle_any_bus(rt, env, bus, source, req) ==
  CASE bus = "Msg" -> handle_rpc_msg(rt, env, source, req)
    [] OTHER -> handle_rpc_ctl(rt, env, source, req)

handle(rt, env, bus, source, req) ==
  CASE bus = "Msg" -> handle_rpc_msg(rt, env, source, req)
    [] bus = "Ctl" -> handle_rpc_ctl(rt, env, source, req)
    [] OTHER -> [err |-> "NotSupported", rt |-> rt]

(* ---------- the state machine ---------- *)
\* The dispatch loop handles one request at a time: Handle runs a whole call
\* of Handler::handle and leaves its record (last, result, sent, executed);
\* NextRequest is the loop going back to read the next request, where the
\* record of the finished call is dropped.  last = Idle between two calls.
Env(down, child) == [down |-> down, child |-> child]
Idle == [bus |-> "none", source |-> Farcasterd, request |-> [type |-> "none"],
         env |-> Env({}, "ok")]

\* The stream of a subscriber of a swap: events is every progress request
\* sent to it since its latest SubscribeProgress, earlier is the number of
\* progress requests sent to it before that in the same subscription, broken
\* says that the replay of its latest SubscribeProgress failed and broken_all
\* that one of its replays failed.  The stream is dropped when the
\* subscription ends.
NoStream == [events |-> <<>>, earlier |-> 0, broken |-> FALSE, broken_all |-> FALSE]

\* The runtime that run() builds, in a build with or without overflow checks.
Start(checks, tasks) ==
  /\ overflow_checks = checks
  /\ node_secret_key = {}
  /\ node_public_key = {}
  /\ listens = {}
  /\ spawning_services = {}
  /\ registered_services = {}
  /\ public_offers = {}
  /\ progress = EmptyMap
  /\ progress_subscriptions = EmptyMap
  /\ stats = StatsDefault
  /\ syncer_task_counter = tasks
  /\ trade_state_machines = <<>>
  /\ syncer_state_machines = EmptyMap
  /\ sent = <<>>
  /\ result = "Ok"
  /\ last = Idle
  /\ executed = <<>>
  /\ keys_seen = <<>>
  \* run() launches walletd and databased before the runtime is built
  /\ lifecycle = [s \in Tracked |-> IF s \in {Wallet, Database} THEN "launched" ELSE "none"]
  /\ streams = [p \in Swaps \X {Client(c) : c \in Clients} |-> NoStream]

\* The two profiles differ only where a counter of Stats is decremented.  The
\* scenarios that never reach a decrement start from Init; the scenario of
\* the funding counters starts from InitStats, in either profile.
Init == Start(FALSE, 0)
InitStats == \E checks \in BOOLEAN : Start(checks, 0)
\* The scenario of the syncer tasks starts in either profile, from a fresh
\* counter or from a counter that has reached the last u32 value.
InitTasks == \E checks \in BOOLEAN, tasks \in TaskStarts : Start(checks, tasks)

SentTo(log, to) ==
  LET mine == SelectSeq(log, LAMBDA e : e.to = to)
  IN [i \in 1..Len(mine) |-> mine[i].request]

Subscribers(rt, service) ==
  IF service \in DOMAIN rt.progress_subscriptions
  THEN rt.progress_subscriptions[service] ELSE {}

streams_after(r, call) ==
  LET req == call.request
  IN IF call.bus # "Ctl" THEN streams
     ELSE [p \in DOMAIN streams |->
             IF p[2] \notin Subscribers(r.rt, p[1]) THEN NoStream
             ELSE IF req.type \in {"Progress", "Success", "Failure"} /\ call.source = p[1]
             THEN [streams[p] EXCEPT !.events = @ \o SentTo(r.rt.sent, p[2])]
             ELSE IF /\ req.type = "SubscribeProgress"
                     /\ call.source = p[2]
                     /\ Swap(req.swap_id) = p[1]
             THEN [events |-> SentTo(r.rt.sent, p[2]),
                   earlier |-> streams[p].earlier + Len(streams[p].events),
                   broken |-> (r.err # "Ok"),
                   broken_all |-> (streams[p].broken_all \/ r.err # "Ok")]
             ELSE streams[p]]

Commit(r, call) ==
  /\ UNCHANGED overflow_checks
  /\ streams' = streams_after(r, call)
  /\ node_secret_key' = r.rt.node_secret_key
  /\ node_public_key' = r.rt.node_public_key
  /\ listens' = r.rt.listens
  /\ spawning_services' = r.rt.spawning_services
  /\ registered_services' = r.rt.registered_services
  /\ public_offers' = r.rt.public_offers
  /\ progress' = r.rt.progress
  /\ progress_subscriptions' = r.rt.progress_subscriptions
  /\ stats' = r.rt.stats
  /\ syncer_task_counter' = r.rt.syncer_task_counter
  /\ trade_state_machines' = r.rt.trade_state_machines
  /\ syncer_state_machines' = r.rt.syncer_state_machines
  /\ sent' = r.rt.sent
  /\ executed' = r.rt.executed
  /\ lifecycle' = r.rt.lifecycle
  /\ result' = r.err
  /\ last' = call
  /\ keys_seen' = IF call.bus = "Ctl" /\ call.request.type = "Keys"
                  THEN (IF keys_seen = <<>> THEN <<>> ELSE <<keys_seen[Len(keys_seen)]>>)
                         \o <<(<<call.request.sk, call.request.pk>>)>>
                  ELSE keys_seen

\* Requests the model stops issuing once a bound is reached.
WithinBounds(req) ==
  CASE req.type \in {"TakerCommit", "LaunchSwap"} -> stats.initialized < MaxCount
    [] req.type = "SweepAddress" ->
         \E first \in TaskStarts : syncer_task_counter - first \in 0..(MaxTasks - 1)
    [] req.type = "FundingInfo" ->
         stats.awaiting_funding_btc < MaxCount /\ stats.awaiting_funding_xmr < MaxCount
    [] req.type = "FundingCompleted" ->
         stats.funded_btc < MaxCount /\ stats.funded_xmr < MaxCount
    [] req.type = "FundingCanceled" ->
         stats.funding_canceled_btc < MaxCount /\ stats.funding_canceled_xmr < MaxCount
    [] req.type = "SwapOutcome" ->
         \A f \in {"success", "refund", "punish", "abort"} : stats[f] < MaxCount
    [] req.type \in {"Progress", "Success", "Failure"} ->
         \A k \in DOMAIN progress : Len(progress[k]) < MaxQueue
    [] req.type = "SubscribeProgress" -> \A p \in DOMAIN streams : streams[p].earlier = 0
    [] OTHER -> TRUE

\* A call is one invocation of Handler::handle with the behaviour of the
\* environment during it: [bus, source, request, env].
Handle(call) ==
  /\ last = Idle
  /\ WithinBounds(call.request)
  /\ Commit(handle(RT, call.env, call.bus, call.source, call.request), call)

(* ---------- inputs ---------- *)
Calls(buses, sources, requests, downs, children) ==
  {[bus |-> b, source |-> src, request |-> r, env |-> Env(d, c)] :
     b \in buses, src \in sources, r \in requests, d \in downs, c \in children}

Quiet == {{}}
Down(S) == {{}} \cup {{x} : x \in S}

O1 == [id |-> 1, peer |-> "a"]
O2 == [id |-> 2, peer |-> "a"]
O3 == [id |-> 1, peer |-> "b"]
Cli == Client("c1")

\* Calls of the registry scenario: launches, Hellos, keys, terminations and
\* the cleanup after a swap.
RegistryCalls ==
  Calls({"Ctl"}, {Farcasterd, Wallet, Database, Peer("a"), Swap("s1"), Syncer("Bitcoin"),
                  Syncer("Monero"), Cli},
        {Hello}, Down({Wallet}), {"ok"})
    \cup Calls({"Ctl"}, {Wallet}, {Keys(1, 2), Keys(2, 1)}, Quiet, {"ok"})
    \cup Calls({"Ctl"}, {Cli}, {GetInfo}, Down({Cli}), {"ok"})
    \cup Calls({"Ctl"}, {Peer("a"), Wallet}, {PeerdTerminated}, Quiet, {"ok"})
    \cup Calls({"Ctl"}, {Cli}, {TakeOffer(O1)}, Quiet, ChildOutcomes)
    \cup Calls({"Ctl"}, {Wallet}, {LaunchSwap(O1, "s1")}, Quiet, {"ok"})
    \cup Calls({"Ctl"}, {Swap("s1")}, {SwapOutcome("Abort")}, Down({Peer("a"), Database}),
               {"ok"})
    \cup Calls({"Msg"}, {Peer("a")}, {Hello, Keys(1, 2)}, Quiet, {"ok"})
    \cup Calls({"Bridge"}, {Wallet}, {Hello, Keys(1, 2)}, Quiet, {"ok"})

\* Calls of the router scenario: every rule of the two routers, with
\* requests that match a machine and requests that match none.
RouterCalls ==
  Calls({"Ctl"}, {Wallet, Database, Swap("s1")}, {Hello}, Quiet, {"ok"})
    \cup Calls({"Ctl"}, {Peer("b")}, {Hello}, Down({Peer("b")}), {"ok"})
    \cup Calls({"Ctl"}, {Wallet}, {Keys(1, 1)}, Quiet, {"ok"})
    \cup Calls({"Ctl"}, {Cli}, {GetInfo}, Quiet, {"ok"})
    \cup Calls({"Ctl"}, {Peer("b")}, {PeerdTerminated}, Quiet, {"ok"})
    \cup Calls({"Ctl"}, {Cli},
               {MakeOffer(O1), TakeOffer(O3), RevokeOffer(O2),
                RestoreCheckpoint("s1", O2), SweepAddress("Bitcoin")},
               Quiet, {"ok"})
    \cup Calls({"Ctl"}, {Cli}, {RevokeOffer(O1)}, Down({Cli}), {"ok"})
    \cup Calls({"Msg"}, {Peer("b")}, {TakerCommit(O1, "s1"), TakerCommit(O2, "s1")},
               Quiet, {"ok"})
    \cup Calls({"Ctl"}, {Wallet}, {LaunchSwap(O3, "s2"), LaunchSwap(O1, "s2")}, Quiet, {"ok"})
    \cup Calls({"Ctl"}, {Swap("s1"), Swap("s2")},
               {PeerdUnreachable, SwapOutcome("Abort")}, Quiet, {"ok"})
    \cup Calls({"Ctl"}, {Cli}, {FundingInfo("Bitcoin"), SwapOutcome("Abort")}, Quiet, {"ok"})
    \cup Calls({"Ctl"}, {Syncer("Bitcoin")}, {SweepSuccess(id) : id \in 1..(MaxTasks + 1)},
               Quiet, {"ok"})
    \cup Calls({"Ctl", "Msg"}, {Cli}, {GetKeys}, Quiet, {"ok"})
    \cup Calls({"Msg"}, {Wallet}, {Hello, Keys(1, 1)}, Quiet, {"ok"})
    \cup Calls({"Bridge"}, {Wallet}, {Hello, MakeOffer(O1)}, Quiet, {"ok"})

\* Calls of the progress scenario: the swap s1, which emits progress before
\* and after it is restored, the unknown swap s2, and two clients that read,
\* subscribe and unsubscribe while one of them may be unreachable.
Cli2 == Client("c2")

\* Calls of the queue scenario: progress requests from a swap daemon and from
\* other sources, readers and subscribers, and the end of the swap with its
\* cleanup.
QueuesCalls ==
  Calls({"Ctl"}, {Wallet, Database, Swap("s1")}, {Hello}, Quiet, {"ok"})
    \cup Calls({"Ctl"}, {Wallet}, {Keys(1, 1), PeerdTerminated}, Quiet, {"ok"})
    \cup Calls({"Ctl"}, {Cli}, {GetInfo, RestoreCheckpoint("s1", O2)}, Quiet, {"ok"})
    \cup Calls({"Ctl"}, {Swap("s1")}, {Progress("Message", "M1"), Success("Buy")},
               Down({Cli}), {"ok"})
    \cup Calls({"Ctl"}, {Cli}, {FailureReq("f")}, Quiet, {"ok"})
    \cup Calls({"Ctl"}, {Cli},
               {ReadProgress("s1"), SubscribeProgress("s1"), UnsubscribeProgress("s1")},
               Quiet, {"ok"})
    \cup Calls({"Ctl"}, {Swap("s1")}, {SwapOutcome("Buy")}, Down({Database}), {"ok"})
    \cup Calls({"Msg"}, {Swap("s1")}, {Hello, Progress("Message", "M1")}, Quiet, {"ok"})
    \cup Calls({"Bridge"}, {Swap("s1")}, {Progress("Message", "M1")}, Quiet, {"ok"})
M1 == Progress("Message", "M1")
ProgressCalls ==
  Calls({"Ctl"}, {Wallet, Database}, {Hello}, Quiet, {"ok"})
    \cup Calls({"Ctl"}, {Wallet}, {Keys(1, 1), PeerdTerminated}, Quiet, {"ok"})
    \cup Calls({"Ctl"}, {Cli}, {GetInfo, RestoreCheckpoint("s1", O2)}, Quiet, {"ok"})
    \cup Calls({"Ctl"}, {Swap("s1")}, {M1, Success("Buy"), FailureReq("f")},
               Down({Cli, Cli2}), {"ok"})
    \cup Calls({"Ctl"}, {Cli}, {ReadProgress("s1"), ReadProgress("s2")}, Down({Cli}), {"ok"})
    \cup Calls({"Ctl"}, {Cli}, {SubscribeProgress("s1"), SubscribeProgress("s2")},
               Down({Cli}), {"ok"})
    \cup Calls({"Ctl"}, {Cli2}, {SubscribeProgress("s1")}, Quiet, {"ok"})
    \cup Calls({"Ctl"}, {Cli, Cli2}, {UnsubscribeProgress("s1"), UnsubscribeProgress("s2")},
               Quiet, {"ok"})
    \cup Calls({"Msg"}, {Swap("s1")}, {Hello, M1}, Quiet, {"ok"})
    \cup Calls({"Bridge"}, {Swap("s1")}, {M1}, Quiet, {"ok"})

\* Calls of the funding scenario: the swap s1 launched for a maker offer and
\* the swap s2 restored from a checkpoint, each reporting funding events and
\* outcomes in any order.
StatsCalls ==
  Calls({"Ctl"}, {Wallet, Database, Swap("s2")}, {Hello}, Quiet, {"ok"})
    \cup Calls({"Ctl"}, {Wallet}, {Keys(1, 1), PeerdTerminated}, Quiet, {"ok"})
    \cup Calls({"Ctl"}, {Cli}, {GetInfo, MakeOffer(O1), RestoreCheckpoint("s2", O2)},
               Quiet, {"ok"})
    \cup Calls({"Msg"}, {Peer("b")}, {Hello, TakerCommit(O1, "s1")}, Quiet, {"ok"})
    \cup Calls({"Ctl"}, {Swap("s1"), Swap("s2")},
               {FundingInfo("Bitcoin"), FundingCompleted("Bitcoin"), FundingCanceled("Monero")},
               Quiet, {"ok"})
    \cup Calls({"Ctl"}, {Swap("s1"), Swap("s2")}, {SwapOutcome("Buy")}, Down({Database}), {"ok"})
    \cup Calls({"Ctl"}, {Swap("s1"), Swap("s2")}, {SwapOutcome("Abort")}, Quiet, {"ok"})
    \cup Calls({"Bridge"}, {Swap("s1")}, {FundingInfo("Bitcoin")}, Quiet, {"ok"})

\* Calls of the syncer task scenario: sweeps requested by a client, with the
\* syncer daemon launched, reachable or not, the Hello of that daemon, and the
\* results of issued and of unknown tasks.
TaskIds == UNION {first..(first + MaxTasks + 1) : first \in TaskStarts}
TasksCalls ==
  Calls({"Ctl"}, {Wallet, Database, Syncer("Bitcoin")}, {Hello}, Quiet, {"ok"})
    \cup Calls({"Ctl"}, {Wallet}, {Keys(1, 1), PeerdTerminated}, Quiet, {"ok"})
    \cup Calls({"Ctl"}, {Cli}, {GetInfo}, Quiet, {"ok"})
    \cup Calls({"Ctl"}, {Cli}, {SweepAddress("Bitcoin")}, Down({Syncer("Bitcoin")}),
               {"ok", "spawn_failed"})
    \cup Calls({"Ctl"}, {Syncer("Bitcoin")}, {SweepSuccess(id) : id \in TaskIds},
               Down({Cli}), {"ok"})
    \cup Calls({"Msg"}, {Syncer("Bitcoin")}, {Hello, SweepSuccess(0)}, Quiet, {"ok"})
    \cup Calls({"Bridge"}, {Cli}, {SweepAddress("Bitcoin")}, Quiet, {"ok"})

\* Calls of the offer scenario: one offer O1 that is made, taken, committed
\* to, revoked and named by a checkpoint, in any order and more than once,
\* with the one swap id s1.
OffersCalls ==
  Calls({"Ctl"}, {Wallet, Database, Swap("s1")}, {Hello}, Quiet, {"ok"})
    \cup Calls({"Ctl"}, {Wallet}, {Keys(1, 1), PeerdTerminated}, Quiet, {"ok"})
    \cup Calls({"Ctl"}, {Cli}, {GetInfo}, Quiet, {"ok"})
    \cup Calls({"Ctl"}, {Cli}, {MakeOffer(O1), TakeOffer(O1), RestoreCheckpoint("s1", O1)},
               Quiet, {"ok"})
    \cup Calls({"Ctl"}, {Cli}, {MakeOffer(O2), RevokeOffer(O1)}, Down({Cli}), {"ok"})
    \cup Calls({"Msg"}, {Peer("b")}, {Hello, TakerCommit(O1, "s1"), TakerCommit(O2, "s1")},
               Quiet, {"ok"})
    \cup Calls({"Ctl"}, {Wallet}, {LaunchSwap(O1, "s1")}, Quiet, {"ok"})
    \cup Calls({"Bridge"}, {Cli}, {MakeOffer(O1)}, Quiet, {"ok"})

Arm(call) ==
  IF call.bus = "Msg" THEN (IF call.request.type = "Hello" THEN "MsgHello" ELSE "MsgRouted")
  ELSE IF call.bus = "Ctl"
  THEN (IF call.request.type \in {"Hello", "Keys", "GetInfo", "PeerdTerminated", "ReadProgress",
                                  "SubscribeProgress", "UnsubscribeProgress"}
        THEN call.request.type
        ELSE IF call.request.type \in {"Progress", "Success", "Failure"} THEN "Progress"
        ELSE "CtlRouted")
  ELSE "OtherBus"

(* ---------- actions: one per arm of the handler ---------- *)
CtlHello(C) == \E call \in C : Arm(call) = "Hello" /\ Handle(call)
CtlKeys(C) == \E call \in C : Arm(call) = "Keys" /\ Handle(call)
CtlGetInfo(C) == \E call \in C : Arm(call) = "GetInfo" /\ Handle(call)
CtlPeerdTerminated(C) == \E call \in C : Arm(call) = "PeerdTerminated" /\ Handle(call)
CtlRouted(C) == \E call \in C : Arm(call) = "CtlRouted" /\ Handle(call)
MsgHello(C) == \E call \in C : Arm(call) = "MsgHello" /\ Handle(call)
MsgRouted(C) == \E call \in C : Arm(call) = "MsgRouted" /\ Handle(call)
OtherBus(C) == \E call \in C : Arm(call) = "OtherBus" /\ Handle(call)

\* After a panic the process is gone: the loop reads no further request.
NextRequest ==
  /\ last # Idle
  /\ result # "Panic"
  /\ last' = Idle
  /\ sent' = <<>>
  /\ result' = "Ok"
  /\ executed' = <<>>
  /\ UNCHANGED <<rtvars, keys_seen, lifecycle, streams, overflow_checks>>

Step(C) ==
  \/ NextRequest
  \/ CtlHello(C)
  \/ CtlKeys(C)
  \/ CtlGetInfo(C)
  \/ CtlPeerdTerminated(C)
  \/ CtlRouted(C)
  \/ MsgHello(C)
  \/ MsgRouted(C)
  \/ OtherBus(C)

CtlProgress(C) == \E call \in C : Arm(call) = "Progress" /\ Handle(call)
CtlReadProgress(C) == \E call \in C : Arm(call) = "ReadProgress" /\ Handle(call)
CtlSubscribeProgress(C) == \E call \in C : Arm(call) = "SubscribeProgress" /\ Handle(call)
CtlUnsubscribeProgress(C) == \E call \in C : Arm(call) = "UnsubscribeProgress" /\ Handle(call)

\* Step with the arms of the progress queues and subscriptions
StepProgress(C) ==
  \/ Step(C)
  \/ CtlProgress(C)
  \/ CtlReadProgress(C)
  \/ CtlSubscribeProgress(C)
  \/ CtlUnsubscribeProgress(C)

Next == Step(RegistryCalls)
Spec == Init /\ [][Next]_vars

NextRouter == Step(RouterCalls)
SpecRouter == Init /\ [][NextRouter]_vars

NextProgress == StepProgress(ProgressCalls)
SpecProgress == Init /\ [][NextProgress]_vars

NextStats == Step(StatsCalls)
SpecStats == InitStats /\ [][NextStats]_vars

NextTasks == Step(TasksCalls)
SpecTasks == InitTasks /\ [][NextTasks]_vars

NextOffers == Step(OffersCalls)
SpecOffers == Init /\ [][NextOffers]_vars

NextQueues == StepProgress(QueuesCalls)
SpecQueues == Init /\ [][NextQueues]_vars

(* ====================== properties ====================== *)
IsCall(bus, type) == last.bus = bus /\ last.request.type = type
Routed(call) ==
  \/ call.bus = "Msg" /\ call.request.type # "Hello"
  \/ call.bus = "Ctl" /\ call.request.type \notin
       {"Hello", "Keys", "GetInfo", "PeerdTerminated", "Progress", "Success", "Failure",
        "ReadProgress", "SubscribeProgress", "UnsubscribeProgress"}
Reply(to, req) == [to |-> to, request |-> req]

\* C1 (as claimed): no ServiceId is in spawning_services and in
\* registered_services at the same time.
C1_Disjoint == spawning_services \cap registered_services = {}

\* C2 (as claimed): a Wallet, Database, Peer or Syncer id is in
\* registered_services iff the last lifecycle event observed for it (launch,
\* Hello, termination) was a Hello.
C2_RegisteredIffLastHello ==
  \A s \in Tracked :
    (s \in registered_services) <=> (lifecycle[s] = "hello")

\* C3: services_ready() succeeds iff Wallet and Database are both
\* registered; it names walletd when Wallet is missing and databased when
\* only Database is missing.
C3_ServicesReady ==
  LET r == services_ready(RT) IN
  /\ (r = "Ok") <=> (Wallet \in registered_services /\ Database \in registered_services)
  /\ Wallet \notin registered_services
       => r = "Farcaster not ready yet, walletd still starting"
  /\ (Wallet \in registered_services /\ Database \notin registered_services)
       => r = "Farcaster not ready yet, databased still starting"

C3_Witness ==
  /\ Wallet \in registered_services
  /\ Database \notin registered_services
  /\ IsCall("Ctl", "TakeOffer")
  /\ sent = <<Reply(last.source, FailureReq("Farcaster not ready yet, databased still starting"))>>

\* C4 (as claimed): a GetInfo handled before any Wallet Hello is answered
\* with Failure(".. walletd still starting") and not with NodeInfo.
C4_ReadyGate ==
  (IsCall("Ctl", "GetInfo") /\ lifecycle[Wallet] # "hello" /\ result = "Ok")
    => sent = <<Reply(last.source, FailureReq("Farcaster not ready yet, walletd still starting"))>>

\* C4 (amended): a GetInfo on the Ctl bus is answered, in every state and
\* also before any Wallet Hello, with exactly one NodeInfo whose peers are
\* exactly the registered Peer addresses; if the send to the requester fails
\* the handler returns the error and nothing is sent.
C4_GetInfoNodeInfo ==
  IsCall("Ctl", "GetInfo") =>
    IF last.source \in last.env.down
    THEN result = "Err" /\ sent = <<>>
    ELSE /\ result = "Ok"
         /\ Len(sent) = 1
         /\ sent[1].to = last.source
         /\ sent[1].request.type = "NodeInfo"
         /\ sent[1].request.peers = {a \in Addrs : Peer(a) \in registered_services}

C4_Witness ==
  /\ IsCall("Ctl", "GetInfo")
  /\ lifecycle[Wallet] # "hello"
  /\ Len(sent) = 1
  /\ sent[1].request.type = "NodeInfo"
  /\ sent[1].request.peers = {}

\* C5: peer_keys_ready() is a not-ready error as long as no Keys request
\* has been handled, and afterwards it is the pair of the most recent Keys
\* request.
C5_PeerKeys ==
  peer_keys_ready(RT) =
    IF keys_seen = <<>> THEN <<"Peer keys not ready yet">>
    ELSE <<"Ok", keys_seen[Len(keys_seen)][1], keys_seen[Len(keys_seen)][2]>>

C5_Witness ==
  /\ Len(keys_seen) = 2
  /\ keys_seen[1] # keys_seen[2]
  /\ peer_keys_ready(RT) = <<"Ok", keys_seen[2][1], keys_seen[2][2]>>

(* ---------- dispatch and router (checked under SpecRouter) ---------- *)
\* C6: handle dispatches only for Msg and Ctl; any other bus returns
\* NotSupported and changes no runtime state; Hello on Msg changes nothing
\* and advances no machine; every other request on Msg gets exactly what the
\* router does with it.
C6_Dispatch ==
  [][last' # Idle =>
       /\ (result' = "NotSupported") <=> (last'.bus \notin {"Msg", "Ctl"})
       /\ last'.bus \notin {"Msg", "Ctl"}
            => UNCHANGED rtvars /\ sent' = <<>> /\ executed' = <<>>
       /\ (last'.bus = "Msg" /\ last'.request.type = "Hello")
            => UNCHANGED rtvars /\ sent' = <<>> /\ executed' = <<>> /\ result' = "Ok"
       /\ (last'.bus = "Msg" /\ last'.request.type # "Hello")
            => LET r == process_request_with_state_machines(
                          RT, last'.env, last'.source, last'.request)
               IN /\ result' = r.err
                  /\ sent' = r.rt.sent
                  /\ executed' = r.rt.executed
                  /\ trade_state_machines' = r.rt.trade_state_machines
                  /\ registered_services' = r.rt.registered_services
                  /\ node_secret_key' = node_secret_key
                  /\ node_public_key' = node_public_key]_vars

C6_Witness ==
  /\ last.bus = "Bridge"
  /\ last.request.type = "MakeOffer"
  /\ result = "NotSupported"
  /\ services_ready(RT) = "Ok"
  /\ peer_keys_ready(RT)[1] = "Ok"
  /\ last.request.public_offer \notin public_offers

\* The transitions of one call, by family, and those that kept their machine.
TradeRuns(log) == SelectSeq(log, LAMBDA e : e.family = "trade")
SyncerRuns(log) == SelectSeq(log, LAMBDA e : e.family = "syncer")
NotEnded(runs) == {i \in 1..Len(runs) : runs[i].out # "none"}

\* C7 (as claimed): every Hello handled on the Ctl bus is passed exactly
\* once to every trade machine and every syncer machine that was active when
\* it arrived, and each of them is back in its collection afterwards iff its
\* transition did not terminate it.
C7_HelloBroadcast ==
  [][(last'.bus = "Ctl" /\ last'.request.type = "Hello") =>
       LET tr == TradeRuns(executed')
           sy == SyncerRuns(executed')
       IN /\ [i \in 1..Len(tr) |-> tr[i].machine] = trade_state_machines
          /\ Len(sy) = Cardinality(DOMAIN syncer_state_machines)
          /\ {sy[i].machine : i \in 1..Len(sy)} = Range(syncer_state_machines)
          /\ Len(trade_state_machines') = Cardinality(NotEnded(tr))
          /\ \A i \in 1..Len(tr) :
               tr[i].out = "some" => tr[i].next \subseteq Range(trade_state_machines')
          /\ Cardinality(DOMAIN syncer_state_machines') = Cardinality(NotEnded(sy))
          /\ \A i \in 1..Len(sy) :
               sy[i].out = "some" => sy[i].next \subseteq Range(syncer_state_machines')]_vars

\* C8: RestoreCheckpoint, MakeOffer and TakeOffer yield a fresh start
\* machine and remove no existing machine; the other rules select only an
\* existing machine with the matching open offer, consumed offer or swap
\* id; at most one machine is selected per request.
C8_Router ==
  [][(last' # Idle /\ Routed(last')) =>
       LET req == last'.request
           tr == TradeRuns(executed')
           old == Range(trade_state_machines)
       IN /\ Len(executed') <= 1
          /\ req.type \in {"RestoreCheckpoint", "MakeOffer", "TakeOffer"} =>
               /\ Len(tr) = 1
               /\ tr[1].machine = (CASE req.type = "RestoreCheckpoint" -> StartRestore
                                     [] req.type = "MakeOffer" -> StartMaker
                                     [] req.type = "TakeOffer" -> StartTaker)
               /\ Len(trade_state_machines') >= Len(trade_state_machines)
               /\ SubSeq(trade_state_machines', 1, Len(trade_state_machines))
                    = trade_state_machines
          /\ req.type \in {"TakerCommit", "RevokeOffer"} =>
               \A i \in 1..Len(tr) :
                 tr[i].machine \in old /\ open_offer(tr[i].machine) = {req.public_offer}
          /\ req.type = "LaunchSwap" =>
               \A i \in 1..Len(tr) :
                 tr[i].machine \in old /\ consumed_offer(tr[i].machine) = {req.public_offer}
          /\ req.type \in {"PeerdUnreachable", "FundingInfo", "FundingCanceled",
                           "FundingCompleted", "SwapOutcome"} =>
               \A i \in 1..Len(tr) :
                 /\ IsSwap(last'.source)
                 /\ tr[i].machine \in old
                 /\ swap_id(tr[i].machine) = {last'.source[2]}]_vars

C8_Witness ==
  /\ IsCall("Ctl", "SwapOutcome")
  /\ Len(executed) = 1
  /\ swap_id(executed[1].machine) = {last.source[2]}
  /\ \E i \in 1..Len(trade_state_machines) :
       /\ swap_id(trade_state_machines[i]) # {}
       /\ swap_id(trade_state_machines[i]) # {last.source[2]}

\* C9: the matched machine is taken out of its collection before its
\* transition runs (the cleanup run by its own SwapOutcome transition does not
\* count it as a client of its peer), it is pushed back iff next returned a
\* machine, and a machine that ended is absent afterwards.
C9_RemoveThenReinsert ==
  [][(last' # Idle /\ Routed(last') /\ Len(executed') = 1) =>
       LET req == last'.request
           e == executed'[1]
           fresh == req.type \in {"RestoreCheckpoint", "MakeOffer", "TakeOffer", "SweepAddress"}
       IN /\ (e.family = "trade" /\ fresh) =>
               trade_state_machines' = trade_state_machines \o SetToSeq(e.next)
          /\ (e.family = "trade" /\ ~fresh) =>
               \E i \in 1..Len(trade_state_machines) :
                 LET rest == RemoveAt(trade_state_machines, i) IN
                 /\ trade_state_machines[i] = e.machine
                 /\ trade_state_machines' = rest \o SetToSeq(e.next)
                 /\ (e.out = "some") <=> (Len(trade_state_machines') = Len(trade_state_machines))
                 /\ (req.type = "SwapOutcome" /\ e.machine.state = "SwapRunning"
                       /\ e.out = "none") =>
                      \A p \in Peers \cap registered_services :
                        (/\ \A j \in 1..Len(rest) : p \notin get_connection(rest[j])
                         /\ p \notin last'.env.down)
                          => /\ p \notin registered_services'
                             /\ \E k \in 1..Len(sent') : sent'[k] = Reply(p, Terminate)
          /\ (e.family = "syncer" /\ ~fresh) =>
               /\ req.id \in DOMAIN syncer_state_machines
               /\ e.machine = syncer_state_machines[req.id]
               /\ e.out # "some" => DOMAIN syncer_state_machines'
                                      = DOMAIN syncer_state_machines \ {req.id}]_vars

C9_Witness ==
  /\ IsCall("Ctl", "SwapOutcome")
  /\ Len(executed) = 1
  /\ executed[1].out = "none"
  /\ executed[1].machine.peer # {}
  /\ \A p \in executed[1].machine.peer :
       /\ p \notin registered_services
       /\ \E k \in 1..Len(sent) : sent[k] = Reply(p, Terminate)

\* No rule of the two routers selects a machine for the call.
Miss(call) ==
  LET req == call.request
      machines == Range(trade_state_machines)
  IN CASE req.type \in {"RestoreCheckpoint", "MakeOffer", "TakeOffer", "SweepAddress"} -> FALSE
       [] req.type \in {"TakerCommit", "RevokeOffer"} ->
            ~\E m \in machines : open_offer(m) = {req.public_offer}
       [] req.type = "LaunchSwap" ->
            ~\E m \in machines : consumed_offer(m) = {req.public_offer}
       [] req.type \in {"PeerdUnreachable", "FundingInfo", "FundingCanceled",
                        "FundingCompleted", "SwapOutcome"} ->
            ~IsSwap(call.source) \/ ~\E m \in machines : swap_id(m) = {call.source[2]}
       [] req.type = "SyncerEvent" -> req.id \notin DOMAIN syncer_state_machines
       [] OTHER -> TRUE

\* C10: a request that matches no trade machine and no syncer machine is
\* dropped: the handler returns Ok, sends nothing, and leaves the machines,
\* the registry, the progress queues, the subscriptions and the stats
\* unchanged.
C10_RouterMiss ==
  [][(last' # Idle /\ Routed(last') /\ Miss(last')) =>
       /\ result' = "Ok"
       /\ sent' = <<>>
       /\ executed' = <<>>
       /\ UNCHANGED rtvars]_vars

C10_Witness ==
  /\ IsCall("Ctl", "RevokeOffer")
  /\ executed = <<>>
  /\ result = "Ok"
  /\ sent = <<>>
  /\ last.request.public_offer \in public_offers
  /\ trade_state_machines # <<>>

(* ---------- progress queues and subscriptions ---------- *)
QueueOf(queues, service) == IF service \in DOMAIN queues THEN queues[service] ELSE <<>>
SubsOf(subscriptions, service) ==
  IF service \in DOMAIN subscriptions THEN subscriptions[service] ELSE {}
Everyone == ServiceId \cup {Client(c) : c \in Clients}
FrameBut(changed) ==
  /\ "progress" \in changed \/ UNCHANGED progress
  /\ "progress_subscriptions" \in changed \/ UNCHANGED progress_subscriptions
  /\ UNCHANGED <<node_secret_key, node_public_key, listens, spawning_services,
                 registered_services, public_offers, stats, syncer_task_counter,
                 trade_state_machines, syncer_state_machines>>

\* C11: a Progress, Success or Failure request handled on the Ctl bus from a
\* Swap source is appended at the end of that swap's queue (created when
\* absent), and is sent exactly once to every subscriber of the swap whose send
\* succeeds and to nobody else; the subscribers whose send failed leave the
\* subscription set and the others stay.
C11_ProgressForward ==
  [][(/\ last'.bus = "Ctl"
      /\ last'.request.type \in {"Progress", "Success", "Failure"}
      /\ IsSwap(last'.source)) =>
       LET S == last'.source
           reached == {c \in SubsOf(progress_subscriptions, S) : c \notin last'.env.down}
       IN /\ result' = "Ok"
          /\ DOMAIN progress' = DOMAIN progress \cup {S}
          /\ progress'[S] = Append(QueueOf(progress, S), last'.request)
          /\ \A k \in DOMAIN progress \ {S} : progress'[k] = progress[k]
          /\ \A c \in Everyone :
               SentTo(sent', c) = IF c \in reached THEN <<last'.request>> ELSE <<>>
          /\ DOMAIN progress_subscriptions' = DOMAIN progress_subscriptions
          /\ \A k \in DOMAIN progress_subscriptions :
               progress_subscriptions'[k] =
                 IF k = S THEN reached ELSE progress_subscriptions[k]
          /\ FrameBut({"progress", "progress_subscriptions"})]_vars

C11_Witness ==
  /\ IsCall("Ctl", "Success")
  /\ Len(QueueOf(progress, last.source)) = 2
  /\ SubsOf(progress_subscriptions, last.source) = {Cli, Cli2}
  /\ Len(sent) = 2

\* C12: ReadProgress(swap_id) on the Ctl bus is answered with one
\* SwapProgress that holds the events of the swap's queue in insertion order;
\* without a queue the answer is a Failure, "No progress made yet on this swap"
\* when a trade machine has that swap id and "Unknown swapd" otherwise.  The
\* runtime state is unchanged; when the requester is unreachable the handler
\* returns the error and nothing is sent.
C12_ReadProgress ==
  [][(last'.bus = "Ctl" /\ last'.request.type = "ReadProgress") =>
       LET service == Swap(last'.request.swap_id)
           queue == QueueOf(progress, service)
           running == \E i \in 1..Len(trade_state_machines) :
                        last'.request.swap_id \in swap_id(trade_state_machines[i])
           answer == sent'[1].request
       IN /\ UNCHANGED rtvars
          /\ IF last'.source \in last'.env.down
             THEN sent' = <<>> /\ result' # "Ok"
             ELSE /\ result' = "Ok"
                  /\ Len(sent') = 1
                  /\ sent'[1].to = last'.source
                  /\ IF service \in DOMAIN progress
                     THEN /\ answer.type = "SwapProgress"
                          /\ Len(answer.progress) = Len(queue)
                          /\ \A i \in 1..Len(queue) :
                               /\ answer.progress[i].event =
                                    IF queue[i].type = "Progress" THEN queue[i].kind
                                    ELSE queue[i].type
                               /\ answer.progress[i].val =
                                    IF queue[i].type = "Failure" THEN queue[i].info
                                    ELSE queue[i].val
                     ELSE answer = FailureReq(IF running
                                              THEN "No progress made yet on this swap"
                                              ELSE "Unknown swapd")]_vars

C12_Witness ==
  /\ IsCall("Ctl", "ReadProgress")
  /\ Len(sent) = 1
  /\ sent[1].request.type = "SwapProgress"
  /\ Len(sent[1].request.progress) = 2
  /\ sent[1].request.progress[1].event = "Message"
  /\ sent[1].request.progress[2].event = "Success"

\* C13: SubscribeProgress(swap_id) on the Ctl bus is permitted iff a trade
\* machine has that swap id or the swap has a queue.  When permitted the
\* requester is added to the swap's subscription set (a set: a client that is
\* already in it leaves it as it was) and the whole queue is sent to it in
\* order within the same call; otherwise the subscriptions are unchanged and
\* the requester gets Failure "Unknown swapd".  When the requester is
\* unreachable the first send fails: nothing is sent and the handler returns
\* the error.
C13_Subscribe ==
  [][(last'.bus = "Ctl" /\ last'.request.type = "SubscribeProgress") =>
       LET service == Swap(last'.request.swap_id)
           queue == QueueOf(progress, service)
           permitted == \/ service \in DOMAIN progress
                        \/ \E i \in 1..Len(trade_state_machines) :
                             last'.request.swap_id \in swap_id(trade_state_machines[i])
           replies == IF permitted
                      THEN [i \in 1..Len(queue) |-> Reply(last'.source, queue[i])]
                      ELSE <<Reply(last'.source, FailureReq("Unknown swapd"))>>
       IN /\ FrameBut({"progress_subscriptions"})
          /\ IF permitted
             THEN /\ DOMAIN progress_subscriptions' = DOMAIN progress_subscriptions \cup {service}
                  /\ progress_subscriptions'[service] =
                       SubsOf(progress_subscriptions, service) \cup {last'.source}
                  /\ \A k \in DOMAIN progress_subscriptions \ {service} :
                       progress_subscriptions'[k] = progress_subscriptions[k]
             ELSE UNCHANGED progress_subscriptions
          /\ IF last'.source \in last'.env.down /\ replies # <<>>
             THEN sent' = <<>> /\ result' # "Ok"
             ELSE sent' = replies /\ result' = "Ok"]_vars

\* a second SubscribeProgress of a subscribed client, with the queue replayed
C13_Witness ==
  /\ IsCall("Ctl", "SubscribeProgress")
  /\ result = "Ok"
  /\ Len(sent) = 2
  /\ last.source \in SubsOf(progress_subscriptions, Swap(last.request.swap_id))
  /\ streams[<<Swap(last.request.swap_id), last.source>>].earlier > 0
  /\ ~\E i \in 1..Len(trade_state_machines) :
        last.request.swap_id \in swap_id(trade_state_machines[i])

\* C14: UnsubscribeProgress(swap_id) on the Ctl bus removes the requester
\* from the swap's subscription set and removes the swap's entry when the set
\* is empty afterwards; without an entry for the swap nothing changes.  No
\* other entry, no queue and nothing else of the runtime changes, nothing is
\* sent and the handler returns Ok.
C14_Unsubscribe ==
  [][(last'.bus = "Ctl" /\ last'.request.type = "UnsubscribeProgress") =>
       LET service == Swap(last'.request.swap_id)
           left == SubsOf(progress_subscriptions, service) \ {last'.source}
       IN /\ FrameBut({"progress_subscriptions"})
          /\ sent' = <<>>
          /\ result' = "Ok"
          /\ DOMAIN progress_subscriptions' =
               IF left = {} THEN DOMAIN progress_subscriptions \ {service}
               ELSE DOMAIN progress_subscriptions
          /\ \A k \in DOMAIN progress_subscriptions' :
               progress_subscriptions'[k] =
                 IF k = service THEN left ELSE progress_subscriptions[k]]_vars

C14_Witness ==
  /\ IsCall("Ctl", "UnsubscribeProgress")
  /\ last.source = Cli
  /\ SubsOf(progress_subscriptions, Swap(last.request.swap_id)) = {Cli2}
  /\ Len(QueueOf(progress, Swap(last.request.swap_id))) = 2

\* C15 (as claimed): the progress events sent to a subscriber since it
\* subscribed, while no send to it has failed, are the queue of the swap: the
\* queue at the time it subscribed followed by every later event, in order,
\* without duplicates or gaps.
C15_StreamSinceFirst ==
  \A p \in DOMAIN streams :
    (p[2] \in SubsOf(progress_subscriptions, p[1]) /\ ~streams[p].broken_all) =>
      LET queue == QueueOf(progress, p[1])
      IN /\ streams[p].earlier + Len(streams[p].events) = Len(queue)
         /\ streams[p].events = SubSeq(queue, streams[p].earlier + 1, Len(queue))

\* C15 (amended): the progress events sent to a subscriber since its latest
\* SubscribeProgress, while it stays subscribed and the replay of that
\* SubscribeProgress did not fail, are the queue of the swap.
C15_StreamSinceLatest ==
  \A p \in DOMAIN streams :
    (p[2] \in SubsOf(progress_subscriptions, p[1]) /\ ~streams[p].broken) =>
      streams[p].events = QueueOf(progress, p[1])

\* a subscriber that caught up with one event and then received another
C15_Witness ==
  /\ IsCall("Ctl", "Success")
  /\ Len(sent) = 2
  /\ \A c \in {Cli, Cli2} :
       /\ c \in SubsOf(progress_subscriptions, last.source)
       /\ streams[<<last.source, c>>].events = <<M1, Success("Buy")>>
       /\ streams[<<last.source, c>>].earlier = 0

(* ---------- Stats ---------- *)
\* C16: the awaiting-funding counter of each blockchain never goes below 0:
\* it never holds the wrapped value of a decrement at 0 (a build without
\* overflow checks), and no decrement is attempted at 0 (a build with overflow
\* checks, where the attempt panics).
C16_AwaitingNonNegative ==
  /\ stats.awaiting_funding_btc >= 0
  /\ stats.awaiting_funding_xmr >= 0
  /\ result # "Panic"

\* C17: funded + funding_canceled <= initialized, over both blockchains.
C17_FundedWithinInitialized ==
  stats.funded_btc + stats.funded_xmr
    + stats.funding_canceled_btc + stats.funding_canceled_xmr <= stats.initialized

OutcomeCounter(outcome) ==
  CASE outcome = "Buy" -> "success"
    [] outcome = "Refund" -> "refund"
    [] outcome = "Punish" -> "punish"
    [] outcome = "Abort" -> "abort"

CleanupRan ==
  /\ last'.bus = "Ctl"
  /\ last'.request.type = "SwapOutcome"
  /\ Len(executed') = 1
  /\ executed'[1].family = "trade"
  /\ executed'[1].machine.state = "SwapRunning"

\* A machine that is left after the swap ended still uses the service.
StillReferenced(service) ==
  \/ /\ IsPeer(service)
     /\ \E i \in 1..Len(trade_state_machines') : service \in get_connection(trade_state_machines'[i])
  \/ /\ IsSyncer(service)
     /\ \/ \E i \in 1..Len(trade_state_machines') : service \in syncers(trade_state_machines'[i])
        \/ \E k \in DOMAIN syncer_state_machines : service \in ssm_syncer(syncer_state_machines[k])

WasSent(to, req) == \E k \in 1..Len(sent') : sent'[k] = Reply(to, req)

\* C19: clean_up_after_swap(swap_id) sends Terminate to Swap(swap_id) and
\* RemoveCheckpoint(swap_id) to Database (to each that is reachable); every
\* registered Peer or Syncer that no remaining machine references is absent
\* from registered_services afterwards and was sent Terminate if it is
\* reachable; every Peer or Syncer that is still referenced stays registered
\* and is sent no Terminate.
C19_CleanupTerminates ==
  [][CleanupRan =>
       /\ Swap(last'.source[2]) \notin last'.env.down =>
            WasSent(Swap(last'.source[2]), Terminate)
       /\ Database \notin last'.env.down =>
            WasSent(Database, RemoveCheckpoint(last'.source[2]))
       /\ \A service \in {x \in registered_services : IsPeer(x) \/ IsSyncer(x)} :
            IF StillReferenced(service)
            THEN service \in registered_services' /\ ~WasSent(service, Terminate)
            ELSE /\ service \notin registered_services'
                 /\ service \notin last'.env.down => WasSent(service, Terminate)]_vars

\* C20: when the cleanup reaches the Peer and Syncer services (the swap
\* daemon and the database were reachable) and the Terminate for an
\* unreferenced one cannot be delivered, that service is absent from
\* registered_services afterwards.
C20_FailedTerminateRemoves ==
  [][(CleanupRan /\ result' = "Ok") =>
       \A service \in {x \in registered_services : IsPeer(x) \/ IsSyncer(x)} :
         (~StillReferenced(service) /\ service \in last'.env.down) =>
           service \notin registered_services']_vars

(* ---------- syncer tasks ---------- *)
\* C21: every TaskId issued is strictly greater, as a u32, than the one
\* issued before it (the value of the counter), also when the counter holds
\* the last u32 value, where no allocation panics; and the key it is issued
\* for is not a key of the syncer machines.
C21_TaskIdsIncrease ==
  [][/\ result' # "Panic"
     /\ syncer_task_counter' # syncer_task_counter =>
          /\ u32_less(syncer_task_counter, syncer_task_counter')
          /\ syncer_task_counter' \notin DOMAIN syncer_state_machines]_vars

(* ---------- offers and swap ids ---------- *)
OpenIn(offer_id) ==
  {i \in 1..Len(trade_state_machines) :
     \E o \in open_offer(trade_state_machines[i]) : o.id = offer_id}
ConsumedIn(offer_id) ==
  {i \in 1..Len(trade_state_machines) :
     \E o \in consumed_offer(trade_state_machines[i]) : o.id = offer_id}

\* C22: an offer (compared by offer id) is the open offer of at most one
\* trade machine and the consumed offer of at most one trade machine, and is
\* not open in one machine while it is consumed in another.
C22_OfferInOneMachine ==
  \A o \in Offers :
    /\ Cardinality(OpenIn(o.id)) <= 1
    /\ Cardinality(ConsumedIn(o.id)) <= 1
    /\ OpenIn(o.id) = {} \/ ConsumedIn(o.id) = {}

\* C23: every trade machine in SwapRunning has exactly one swap id, and no
\* two trade machines have the same swap id.
C23_SwapIdInOneMachine ==
  /\ \A i \in 1..Len(trade_state_machines) :
       trade_state_machines[i].state = "SwapRunning" =>
         Cardinality(swap_id(trade_state_machines[i])) = 1
  /\ \A i, j \in 1..Len(trade_state_machines) :
       i # j => swap_id(trade_state_machines[i]) \cap swap_id(trade_state_machines[j]) = {}

OpenMachines(offer) ==
  {i \in 1..Len(trade_state_machines) : open_offer(trade_state_machines[i]) = {offer}}
OpenMachinesAfter(offer) ==
  {i \in 1..Len(trade_state_machines') : open_offer(trade_state_machines'[i]) = {offer}}

\* C24: when Wallet and Database are registered and the keys are known, a
\* MakeOffer(O) on the Ctl bus for an offer that is not yet known, with the
\* launches succeeding and the client reachable, puts O in public_offers and
\* leaves exactly one machine with open_offer() = O, in state
\* MakerAwaitingTakerCommit.  A RevokeOffer(O) that finds a machine with
\* open_offer() = O leaves no machine with that open offer.  A RevokeOffer(O)
\* that finds none is dropped: nothing is sent and the runtime is unchanged.
C24_MakeRevoke ==
  [][/\ (/\ last'.bus = "Ctl"
         /\ last'.request.type = "MakeOffer"
         /\ {Wallet, Database} \subseteq registered_services
         /\ node_secret_key # {}
         /\ node_public_key # {}
         /\ last'.request.public_offer \notin public_offers
         /\ last'.env = Env({}, "ok")) =>
          /\ last'.request.public_offer \in public_offers'
          /\ Cardinality(OpenMachinesAfter(last'.request.public_offer)) = 1
          /\ \A i \in OpenMachinesAfter(last'.request.public_offer) :
               trade_state_machines'[i].state = "MakerAwaitingTakerCommit"
     /\ (/\ last'.bus = "Ctl"
         /\ last'.request.type = "RevokeOffer"
         /\ OpenMachines(last'.request.public_offer) # {}) =>
          OpenMachinesAfter(last'.request.public_offer) = {}
     /\ (/\ last'.bus = "Ctl"
         /\ last'.request.type = "RevokeOffer"
         /\ OpenMachines(last'.request.public_offer) = {}) =>
          /\ UNCHANGED rtvars
          /\ sent' = <<>>
          /\ result' = "Ok"]_vars

\* a second RevokeOffer(O1): the offer was made here (the node listens on its
\* address) and no machine has it open any more, while the machine of O2 stays
C24_Witness ==
  /\ IsCall("Ctl", "RevokeOffer")
  /\ last.request.public_offer = O1
  /\ O1 \in public_offers
  /\ O1.peer \in listens
  /\ OpenMachines(O1) = {}
  /\ OpenMachines(O2) # {}
  /\ ConsumedIn(O1.id) = {}
  /\ sent = <<>>
  /\ result = "Ok"

(* ---------- syncer machines ---------- *)
\* C25: a SweepAddress on the Ctl bus that succeeds stores one new machine
\* under the TaskId just allocated, the successor of the counter, and leaves
\* the other machines as they were.  A SyncerEvent(SweepSuccess{id}) whose id
\* is a key of the map runs exactly the machine stored under id and removes
\* that key, whatever the transition returns.  A SweepSuccess whose id is not
\* a key (the task has ended, or the id was never issued) is dropped: nothing
\* is sent, nothing runs and the runtime is unchanged.
C25_SyncerRoundTrip ==
  [][/\ (/\ last'.bus = "Ctl"
         /\ last'.request.type = "SweepAddress"
         /\ result' = "Ok") =>
          /\ syncer_task_counter' = wrapping_incr(syncer_task_counter)
          /\ DOMAIN syncer_state_machines' =
               DOMAIN syncer_state_machines \cup {syncer_task_counter'}
          /\ syncer_state_machines'[syncer_task_counter'].state = "AwaitingSweep"
          /\ task_id(syncer_state_machines'[syncer_task_counter']) = {syncer_task_counter'}
          /\ \A k \in DOMAIN syncer_state_machines \ {syncer_task_counter'} :
               syncer_state_machines'[k] = syncer_state_machines[k]
     /\ (/\ last'.bus = "Ctl"
         /\ last'.request.type = "SyncerEvent"
         /\ last'.request.id \in DOMAIN syncer_state_machines) =>
          /\ Len(executed') = 1
          /\ executed'[1].family = "syncer"
          /\ executed'[1].machine = syncer_state_machines[last'.request.id]
          /\ executed'[1].out # "some"
          /\ DOMAIN syncer_state_machines' = DOMAIN syncer_state_machines \ {last'.request.id}
          /\ \A k \in DOMAIN syncer_state_machines' :
               syncer_state_machines'[k] = syncer_state_machines[k]
     /\ (/\ last'.bus = "Ctl"
         /\ last'.request.type = "SyncerEvent"
         /\ last'.request.id \notin DOMAIN syncer_state_machines) =>
          /\ UNCHANGED rtvars
          /\ sent' = <<>>
          /\ executed' = <<>>
          /\ result' = "Ok"]_vars

\* the SweepSuccess of the task that was issued: its machine has run, has
\* ended and is out of the map
C25_Witness ==
  /\ IsCall("Ctl", "SyncerEvent")
  /\ last.request.id = syncer_task_counter
  /\ Len(executed) = 1
  /\ executed[1].machine.state = "AwaitingSweep"
  /\ task_id(executed[1].machine) = {last.request.id}
  /\ executed[1].out = "none"
  /\ DOMAIN syncer_state_machines = {}
  /\ result = "Ok"

\* C26: every key of the syncer-machine map is the task id of the machine
\* stored under it; in particular no machine without a task id is stored.
C26_KeyIsTaskId ==
  \A k \in DOMAIN syncer_state_machines : task_id(syncer_state_machines[k]) = {k}

\* a machine put back under its key by the broadcast of a Hello
C26_Witness ==
  /\ IsCall("Ctl", "Hello")
  /\ Len(executed) = 1
  /\ executed[1].family = "syncer"
  /\ executed[1].out = "some"
  /\ DOMAIN syncer_state_machines = {syncer_task_counter}
  /\ syncer_state_machines[syncer_task_counter] = executed[1].machine

(* ---------- registry: Hello sources, terminations, launches ---------- *)
\* C27: after a Ctl Hello from a Syncer the syncer is in registered_services,
\* whether or not it was in spawning_services, and it is not in
\* spawning_services if it was there.
C27_SyncerHello ==
  [][(/\ last'.bus = "Ctl"
      /\ last'.request.type = "Hello"
      /\ IsSyncer(last'.source)) =>
       /\ last'.source \in registered_services'
       /\ last'.source \notin spawning_services']_vars

\* C28: a Ctl Hello from the farcasterd identity or from Swap(id) leaves
\* spawning_services and registered_services as they were.
C28_HelloNoRegistry ==
  [][(/\ last'.bus = "Ctl"
      /\ last'.request.type = "Hello"
      /\ (last'.source = Farcasterd \/ IsSwap(last'.source))) =>
       UNCHANGED <<spawning_services, registered_services>>]_vars

\* a Hello from a swap daemon that was replayed to a machine, with services
\* in both sets and the swap daemon in neither
C28_Witness ==
  /\ IsCall("Ctl", "Hello")
  /\ IsSwap(last.source)
  /\ executed # <<>>
  /\ spawning_services # {}
  /\ registered_services # {}
  /\ last.source \notin spawning_services \cup registered_services

\* C29: a Ctl PeerdTerminated from Peer(addr) takes exactly Peer(addr) out of
\* registered_services and changes nothing else of the runtime, the trade
\* machines included; from a source that is not a Peer it changes nothing.
\* In both cases nothing is sent.
C29_PeerdTerminated ==
  [][(last'.bus = "Ctl" /\ last'.request.type = "PeerdTerminated") =>
       /\ registered_services' =
            IF IsPeer(last'.source) THEN registered_services \ {last'.source}
            ELSE registered_services
       /\ UNCHANGED <<node_secret_key, node_public_key, listens, spawning_services,
                      public_offers, progress, progress_subscriptions, stats,
                      syncer_task_counter, trade_state_machines, syncer_state_machines>>
       /\ sent' = <<>>
       /\ result' = "Ok"]_vars

\* the peer of a swap that is still running has terminated
C29_Witness ==
  /\ IsCall("Ctl", "PeerdTerminated")
  /\ IsPeer(last.source)
  /\ last.source \notin registered_services
  /\ lifecycle[last.source] = "terminated"
  /\ \E i \in 1..Len(trade_state_machines) :
       /\ trade_state_machines[i].state = "SwapRunning"
       /\ last.source \in get_connection(trade_state_machines[i])

\* C30: in every reachable state, connect_peer returns an error and leaves the
\* two sets as they are when the peer is registered, when the spawn fails and
\* when the child has exited, and on Ok it adds Peer(addr) to spawning_services
\* only; syncer_up returns an error and leaves the two sets as they are when
\* its launch fails.  And over every step, a Peer enters spawning_services
\* only in a TakeOffer to that peer whose child was launched and stayed up.
C30_FailedLaunch ==
  [][/\ \A addr \in Addrs, child \in ChildOutcomes :
          LET Kept(r) == /\ r.err # "Ok"
                         /\ r.rt.spawning_services = spawning_services
                         /\ r.rt.registered_services = registered_services
              Added(r) == /\ r.err = "Ok"
                          /\ r.rt.spawning_services = spawning_services \cup {Peer(addr)}
                          /\ r.rt.registered_services = registered_services
              Outcome(r) ==
                IF Peer(addr) \in registered_services \/ child # "ok" THEN Kept(r)
                ELSE Added(r)
          IN Outcome(connect_peer(RT, addr, Env({}, child)))
     /\ \A blockchain \in Chains :
          LET Kept(r) == /\ r.err # "Ok"
                         /\ r.rt.spawning_services = spawning_services
                         /\ r.rt.registered_services = registered_services
          IN (Syncer(blockchain) \notin spawning_services \cup registered_services) =>
               Kept(syncer_up(RT, blockchain, Env({}, "spawn_failed")))
     /\ \A addr \in Addrs :
          (Peer(addr) \in spawning_services' \ spawning_services) =>
            /\ last'.request.type = "TakeOffer"
            /\ last'.request.public_offer.peer = addr
            /\ last'.env.child = "ok"
            /\ Peer(addr) \notin registered_services]_vars

\* a TakeOffer whose peer daemon had exited when it was probed: the client
\* got InvalidEndpoint and the peer is not spawning
C30_Witness ==
  /\ IsCall("Ctl", "TakeOffer")
  /\ last.env.child = "exited"
  /\ \E k \in 1..Len(sent) : sent[k] = Reply(last.source, FailureReq("InvalidEndpoint"))
  /\ Peer(last.request.public_offer.peer) \notin spawning_services
  /\ Syncer("Bitcoin") \in spawning_services

(* ---------- progress queues: frame and keys ---------- *)
\* C31: over every step, every progress queue stays in the map and the queue
\* before the step is a prefix of the queue after it; so the queue at an
\* earlier time is a prefix of the queue at any later time.
C31_QueueAppendOnly ==
  [][\A k \in DOMAIN progress :
       /\ k \in DOMAIN progress'
       /\ Len(progress'[k]) >= Len(progress[k])
       /\ SubSeq(progress'[k], 1, Len(progress[k])) = progress[k]]_vars

\* the swap has ended and its cleanup has run; its queue is as it was filled
C31_Witness ==
  /\ IsCall("Ctl", "SwapOutcome")
  /\ result = "Ok"
  /\ trade_state_machines = <<>>
  /\ \E k \in 1..Len(sent) : sent[k] = Reply(Swap("s1"), Terminate)
  /\ Swap("s1") \in DOMAIN progress
  /\ Len(progress[Swap("s1")]) = MaxQueue
  /\ Swap("s1") \in DOMAIN progress_subscriptions

\* C33: every entry of the progress subscription map holds a non-empty set.
C33_NoEmptySubscription ==
  \A k \in DOMAIN progress_subscriptions : progress_subscriptions[k] # {}

\* C34: every progress queue is keyed by a Swap(id) and holds only Progress,
\* Success and Failure requests.
C34_QueuesOfSwaps ==
  \A k \in DOMAIN progress :
    /\ IsSwap(k)
    /\ \A i \in 1..Len(progress[k]) :
         progress[k][i].type \in {"Progress", "Success", "Failure"}

(* ---------- Hello broadcast: machines kept ---------- *)
\* The transitions that the broadcast ran and that left no machine behind.
Ended(family) ==
  {i \in 1..Len(executed') : executed'[i].family = family /\ executed'[i].out # "some"}

\* C32: when the handling of a Ctl Hello returns an error, the trade machines
\* that are missing afterwards are only those whose own transition ended them
\* or failed, and so are the syncer machines.
C32_BroadcastKeepsMachines ==
  [][(/\ last'.bus = "Ctl"
      /\ last'.request.type = "Hello"
      /\ result' = "Err") =>
       /\ Len(trade_state_machines') = Len(trade_state_machines) - Cardinality(Ended("trade"))
       /\ DOMAIN syncer_state_machines' =
            DOMAIN syncer_state_machines
              \ UNION {task_id(executed'[i].machine) : i \in Ended("syncer")}]_vars

(* ---------- cleanup: frame ---------- *)
\* C35: in every reachable state, for every swap id and every set of
\* unreachable services, clean_up_after_swap takes only Peer and Syncer ids
\* out of registered_services, adds none, leaves spawning_services, the
\* progress queues and the subscriptions as they are, and returns an error
\* with registered_services unchanged when the swap daemon or the database
\* cannot be reached.  And over every step in which a SwapRunning machine
\* handled a SwapOutcome, the same holds of the runtime after the step.
C35_CleanupFrame ==
  [][/\ \A sid \in SwapIds :
        \A down \in SUBSET {Swap(sid), Database, Peer("a")} :
          LET Frame(r) ==
                /\ r.rt.registered_services \subseteq registered_services
                /\ registered_services \ r.rt.registered_services \subseteq Peers \cup Syncers
                /\ r.rt.spawning_services = spawning_services
                /\ r.rt.progress = progress
                /\ r.rt.progress_subscriptions = progress_subscriptions
                /\ (Swap(sid) \in down \/ Database \in down) =>
                     /\ r.err # "Ok"
                     /\ r.rt.registered_services = registered_services
          IN Frame(clean_up_after_swap(RT, sid, Env(down, "ok")))
     /\ CleanupRan =>
          /\ registered_services' \subseteq registered_services
          /\ registered_services \ registered_services' \subseteq Peers \cup Syncers
          /\ UNCHANGED <<spawning_services, progress, progress_subscriptions>>
          /\ (result' # "Ok") => registered_services' = registered_services]_vars

\* a cleanup that took the peer of the ended swap out of the registry and
\* left walletd and the database registered
C35_Witness ==
  /\ IsCall("Ctl", "SwapOutcome")
  /\ result = "Ok"
  /\ Len(executed) = 1
  /\ executed[1].machine.state = "SwapRunning"
  /\ \E k \in 1..Len(sent) : sent[k] = Reply(Peer("a"), Terminate)
  /\ Peer("a") \notin registered_services
  /\ {Wallet, Database} \subseteq registered_services
  /\ spawning_services # {}

(* ---------- syncer_up ---------- *)
\* The number of syncerd processes launched for blockchain over a sequence of
\* syncer_up calls ("up") and Ctl Hellos of that syncer ("hello").
RECURSIVE Launches(_, _, _)
Launches(rt, blockchain, events) ==
  LET Up(r) == (IF r.launched THEN 1 ELSE 0) + Launches(r.rt, blockchain, Tail(events))
  IN IF events = <<>> THEN 0
     ELSE IF Head(events) = "up" THEN Up(syncer_up(rt, blockchain, Env({}, "ok")))
     ELSE Launches(hello_registry(rt, Syncer(blockchain)), blockchain, Tail(events))

SyncerEvents == UNION {[1..n -> {"up", "hello"}] : n \in 0..MaxCalls}

\* C36: in every reachable state and for every blockchain, syncer_up launches
\* a syncerd iff the syncer is in neither set and the spawn succeeds; it adds
\* the id to spawning_services iff it launched; it leaves registered_services
\* as it is; on Ok it returns Some(id) iff the id is registered; and over
\* every sequence of syncer_up calls and Hellos of that syncer at most one
\* syncerd is launched.
C36_SyncerUp ==
  \A blockchain \in Chains :
    /\ \A child \in ChildOutcomes :
         LET absent == Syncer(blockchain) \notin spawning_services \cup registered_services
             Outcome(r) ==
               /\ r.launched <=> (absent /\ child # "spawn_failed")
               /\ r.err # "Ok" <=> (absent /\ child = "spawn_failed")
               /\ r.rt.spawning_services =
                    IF r.launched THEN spawning_services \cup {Syncer(blockchain)}
                    ELSE spawning_services
               /\ r.rt.registered_services = registered_services
               /\ r.res = IF r.err = "Ok" /\ Syncer(blockchain) \in registered_services
                          THEN {Syncer(blockchain)} ELSE {}
         IN Outcome(syncer_up(RT, blockchain, Env({}, child)))
    /\ \A events \in SyncerEvents : Launches(RT, blockchain, events) <= 1

\* one syncer launched and registered by its Hello, the other one launched
\* and not yet heard of
C36_Witness ==
  /\ IsCall("Ctl", "Hello")
  /\ last.source = Syncer("Bitcoin")
  /\ Syncer("Bitcoin") \in registered_services
  /\ lifecycle[Syncer("Bitcoin")] = "hello"
  /\ Syncer("Monero") \in spawning_services
  /\ lifecycle[Syncer("Monero")] = "launched"
====
